---- MODULE Spec2Model ----
(***************************************************************************)
(* Model of the courier fetcher (cmd/fetcher/main.go): the crawl tick      *)
(* (run), the per-source step (processFeed / FetchFeed), the in-memory     *)
(* backoff tracker, the conditional fetcher (internal/feed/fetch.go) and   *)
(* the bulk / single-document flush of the pending document queue.         *)
(*                                                                         *)
(* Durations and instants are whole seconds.  Errors are sequences of      *)
(* tags (errors.Join appends); the empty sequence is nil.                  *)
(***************************************************************************)
EXTENDS Integers, Sequences, FiniteSets, TLC

\* ---------------------------------------------------------------- bounds
MaxItems == 2
NumVersions == 2
MaxTicks == 3
BatchSize == 3
MaxParts == 2
MaxPartLen == 2
MaxWww == 2
MaxNodes == 2
MaxCalls == 3

\* ------------------------------------------------------ program constants
BackoffMin == 30
BackoffMax == 600
BackoffFactor == 2
StatusOK == 200
StatusNotModified == 304
StatusNotFound == 404
StatusTooManyRequests == 429
StatusServiceUnavailable == 503
defaultMaxLength == 2048

Sources == {1, 2}
\* the sets of sources that may be registered (and active) when the process
\* starts; a run with a single source is followed over MaxTicks ticks and
\* its feed carries at most MaxItems - 1 items, a run with more sources is
\* followed over its first tick and its feeds carry at most MaxItems items
Registrations == {{1}, {1, 2}}
Keys == 1..MaxItems
Versions == 1..NumVersions

\* seconds the ticker (and the scheduler) may let pass between two ticks
TickSteps == {BackoffMin, BackoffMax, BackoffMax + 100}
\* Retry-After values a server may send, already parsed; 0 is "no suggestion"
RetryAfterValues == {0, 2 * BackoffMin, BackoffMax + 300}
\* Retry-After values sent with a transient status (not used by run)
TransientRetryAfterValues == {0, 2 * BackoffMin}

VARIABLES
  now,              \* wall clock read by time.Now()
  tick,             \* number of ticks started so far
  pc,               \* position of main/run: "run","feed","srcflush","flush","wait","crashed"
  feedsTbl,         \* feeds table: per source its crawl state
  itemsTbl,         \* items table: per source and identity the stored content hash (0: no row)
  backoffItems,     \* backoffTracker.items
  feeds,            \* run: the listing returned by ListFeeds
  idx,              \* run: index of the source being processed
  pendingDocs,      \* run: the pending document queue
  newDocsRemaining, \* processFeed: documents of the current source still at the tail of the queue
  result,           \* processFeed: its result variable
  trace,            \* history of the current tick: the calls made and their outcomes
  reports,          \* history of the current tick: what run logged for each source
  streak,           \* history: per source, the delays scheduled for its current run of
                    \* consecutive retry-later failures that carried no suggested delay
  probe             \* a component exercised on its own: its inputs, its state and
                    \* what it returned (NoProbe while the fetcher process runs)

mainVars == <<now, tick, pc, feedsTbl, itemsTbl, backoffItems, feeds, idx,
              pendingDocs, newDocsRemaining, result, trace, reports, streak>>

vars == <<now, tick, pc, feedsTbl, itemsTbl, backoffItems, feeds, idx,
          pendingDocs, newDocsRemaining, result, trace, reports, streak, probe>>

NoProbe == [op |-> "none"]

\* ------------------------------------------------------------- helpers
Min(a, b) == IF a < b THEN a ELSE b

Range(s) == {s[i] : i \in 1..Len(s)}

Drop(s, n) == SubSeq(s, n + 1, Len(s))

Take(s, n) == SubSeq(s, 1, n)

\* one entry of the tick history
Ev(ev, src, docs, res, n) == [ev |-> ev, src |-> src, docs |-> docs, res |-> res, n |-> n]

NoFeed == [title |-> 0, items |-> <<>>, nil |-> TRUE]

EmptyResult == [Status |-> 0, Items |-> 0, Mutated |-> FALSE, Err |-> <<>>,
                RetryIn |-> 0, Skipped |-> FALSE, Reason |-> ""]

\* ------------------------------------------------------ backoff tracker
HasEntry(items, id) == id \in DOMAIN items

RemoveEntry(items, id) == [k \in (DOMAIN items) \ {id} |-> items[k]]

PutEntry(items, id, e) == [k \in (DOMAIN items) \cup {id} |-> IF k = id THEN e ELSE items[k]]

\* a variant that forgets the entry whenever it is asked
RemainingForgets(items, id, t) ==
  IF ~HasEntry(items, id) THEN [wait |-> 0, items |-> items]
  ELSE IF t > items[id].until THEN [wait |-> 0, items |-> RemoveEntry(items, id)]
  ELSE [wait |-> items[id].until - t, items |-> RemoveEntry(items, id)]

\* backoffTracker.Remaining: the wait it returns and the map it leaves
Remaining(items, id, t) ==
  IF ~HasEntry(items, id) THEN [wait |-> 0, items |-> items]
  ELSE IF t > items[id].until THEN [wait |-> 0, items |-> RemoveEntry(items, id)]
  ELSE [wait |-> items[id].until - t, items |-> items]

\* a variant that forgets the ceiling
ScheduleNoCap(items, id, t, suggested) ==
  LET prev == IF HasEntry(items, id) THEN items[id].duration ELSE 0
      d == IF suggested <= 0
             THEN (IF prev = 0 THEN BackoffMin ELSE prev * BackoffFactor)
             ELSE suggested
  IN [duration |-> d, items |-> PutEntry(items, id, [until |-> t + d, duration |-> d])]

\* backoffTracker.Schedule: the delay it returns and the map it leaves
Schedule(items, id, t, suggested) ==
  LET prev == IF HasEntry(items, id) THEN items[id].duration ELSE 0
      d0 == IF suggested <= 0
              THEN (IF prev = 0 THEN BackoffMin ELSE prev * BackoffFactor)
              ELSE suggested
      d == IF d0 > BackoffMax THEN BackoffMax ELSE d0
  IN [duration |-> d, items |-> PutEntry(items, id, [until |-> t + d, duration |-> d])]

\* backoffTracker.Reset
Reset(items, id) == RemoveEntry(items, id)

\* --------------------------------------------------- conditional fetcher
\* what the remote end may answer to one request
\* the validators and title of a response: none offered, or all offered
Metas == {[etag |-> "", lm |-> "", title |-> 0], [etag |-> "e1", lm |-> "m1", title |-> 1]}

\* a body is one edition of the feed: its item i carries identity i, and all
\* of its items carry the content version of the edition
Bodies == {[i \in 1..n |-> v] : n \in 0..MaxItems, v \in Versions}

Resp(kind, status, meta, retryAfter, parse, body) ==
  [kind |-> kind, status |-> status, etag |-> meta.etag, lm |-> meta.lm,
   retryAfter |-> retryAfter, parse |-> parse, title |-> meta.title, body |-> body]

NoMeta == [etag |-> "", lm |-> "", title |-> 0]

FullMeta == [etag |-> "e1", lm |-> "m1", title |-> 1]

Responses ==
  {Resp(k, 0, NoMeta, 0, "", <<>>) : k \in {"neterr-transient", "neterr-other", "panic"}}
  \cup {Resp("http", StatusNotModified, m, 0, "", <<>>) : m \in Metas}
  \cup {Resp("http", StatusTooManyRequests, NoMeta, ra, "", <<>>) : ra \in RetryAfterValues}
  \cup {Resp("http", StatusServiceUnavailable, NoMeta, ra, "", <<>>) :
          ra \in TransientRetryAfterValues}
  \cup {Resp("http", StatusNotFound, NoMeta, 0, "", <<>>)}
  \cup {Resp("http", StatusOK, NoMeta, 0, p, <<>>) : p \in {"err", "nil"}}
  \cup {Resp("http", StatusOK, m, 0, "ok", <<>>) : m \in Metas}
  \cup {Resp("http", StatusOK, FullMeta, 0, "ok", b) : b \in Bodies \ {<<>>}}

isRateLimited(status) == status = StatusTooManyRequests

isTransientStatus(status) == status \in {408, 500, 502, StatusServiceUnavailable, 504}

FetchResult(status, feed, etag, lm, retryAfter, err) ==
  [Status |-> status, Feed |-> feed, ETag |-> etag, LastModified |-> lm,
   RetryAfter |-> retryAfter, err |-> err]

\* a variant that never falls back to the prior validator
PreferCurrent(current, prior) == current

\* Fetcher.Fetch: the validator just returned when there is one, else the
\* prior one
Prefer(current, prior) == IF current # "" THEN current ELSE prior

\* Fetcher.Fetch: the conditional headers of the request
Request(etag, lastModified) ==
  [IfNoneMatch |-> [set |-> etag # "", value |-> etag],
   IfModifiedSince |-> [set |-> lastModified # "", value |-> lastModified]]

\* parseRetryAfter at time t: header is absent, a count of seconds, an
\* HTTP date (as seconds on the clock) or something else
parseRetryAfter(header, t) ==
  IF header.kind = "absent" THEN 0
  ELSE IF header.kind = "seconds" /\ header.value >= 0 THEN header.value
  ELSE IF header.kind = "date" /\ header.value - t > 0 THEN header.value - t
  ELSE 0

\* Fetcher.Fetch: the Result and the error for one exchange
Fetch(resp, etag, lastModified) ==
  IF resp.kind = "neterr-transient" THEN FetchResult(0, NoFeed, "", "", 0, "ErrTransientFetch")
  ELSE IF resp.kind = "neterr-other" THEN FetchResult(0, NoFeed, "", "", 0, "error")
  ELSE IF resp.status = StatusNotModified THEN
    FetchResult(resp.status, NoFeed,
                Prefer(resp.etag, etag),
                Prefer(resp.lm, lastModified), 0, "nil")
  ELSE IF resp.status # StatusOK THEN
    IF isTransientStatus(resp.status)
      THEN FetchResult(resp.status, NoFeed, "", "", resp.retryAfter, "ErrTransientFetch")
    ELSE IF isRateLimited(resp.status)
      THEN FetchResult(resp.status, NoFeed, "", "", resp.retryAfter, "ErrRetryLater")
    ELSE FetchResult(resp.status, NoFeed, "", "", 0, "error")
  ELSE IF resp.parse = "err" THEN FetchResult(resp.status, NoFeed, "", "", 0, "error")
  ELSE FetchResult(resp.status,
                   IF resp.parse = "nil" THEN NoFeed
                   ELSE [title |-> resp.title, items |-> resp.body, nil |-> FALSE],
                   Prefer(resp.etag, etag),
                   Prefer(resp.lm, lastModified), 0, "nil")

\* --------------------------------------------------------- repository
NoRow == <<>>

\* item.HashContent over (feedID, guid, url, title, text): an injective tuple
HashContent(s, k, v) == <<s, k, v>>

\* the document built from an upserted row
Doc(s, k, v) == <<s, k, v>>

\* Store.UpsertItem / the UpsertItem query: replace the row of the identity,
\* report indexed when the row is new or its stored hash differs
UpsertItem(tbl, s, k, v) ==
  LET old == tbl[s][k]
      h == HashContent(s, k, v)
  IN [tbl |-> [tbl EXCEPT ![s][k] = h],
      inserted |-> old = NoRow,
      indexed |-> (old = NoRow) \/ (old # h)]

\* the UpdateFeedCrawlState query
UpdateFeedCrawlState(tbl, s, etag, lm, crawled, title) ==
  [tbl EXCEPT ![s] = [etag |-> etag, lm |-> lm, lastCrawled |-> crawled,
                      title |-> IF title # 0 THEN title ELSE tbl[s].title]]

\* ListFeeds: ORDER BY title ASC, url ASC (the url of source s is s)
FeedBefore(tbl, a, b) == tbl[a].title < tbl[b].title \/ (tbl[a].title = tbl[b].title /\ a < b)

ListFeeds(tbl) ==
  LET pos(s) == 1 + Cardinality({o \in DOMAIN tbl : FeedBefore(tbl, o, s)})
  IN [i \in 1..Cardinality(DOMAIN tbl) |->
        LET s == CHOOSE x \in DOMAIN tbl : pos(x) = i
        IN [ID |-> s, Title |-> tbl[s].title, ETag |-> tbl[s].etag,
            LastModified |-> tbl[s].lm]]

\* ------------------------------------------------------------ FetchFeed
\* outcomes of one repository call
RepoOutcomes == {"ok", "err", "panic"}

\* a variant that keeps only the first error
JoinErrKeepsFirst(err, e) == IF err = <<>> THEN <<e>> ELSE err

\* errors.Join(result.Err, e)
JoinErr(err, e) == Append(err, e)

\* a variant that builds a document for every upserted row, changed or not
AppendAlways(docs, d, indexed) == Append(docs, d)

\* the document of an upserted row is kept only when the row is reported as
\* changed (output.Indexed)
AppendIfIndexed(docs, d, indexed) == IF indexed THEN Append(docs, d) ELSE docs

\* the loop over res.Feed.Items: st carries the items table, the documents
\* built so far, the result's Err and Reason, the calls made, and whether a
\* call panicked
RECURSIVE ItemLoop(_, _, _, _, _)
ItemLoop(s, body, io, i, st) ==
  IF i > Len(body) THEN st
  ELSE
    LET d == Doc(s, i, body[i]) IN
    IF io[i] = "panic" THEN
      [st EXCEPT !.panicked = TRUE, !.evs = Append(@, Ev("upsert", s, <<d>>, "panic", i))]
    ELSE IF io[i] = "err" THEN
      ItemLoop(s, body, io, i + 1,
               [st EXCEPT !.Err = JoinErr(@, "upsert item"),
                          !.Reason = IF @ = "" THEN "item upsert" ELSE @,
                          !.evs = Append(@, Ev("upsert", s, <<d>>, "err", i))])
    ELSE
      LET u == UpsertItem(st.tbl, s, i, body[i]) IN
      ItemLoop(s, body, io, i + 1,
               [st EXCEPT !.tbl = u.tbl,
                          !.docs = AppendIfIndexed(@, d, u.indexed),
                          !.evs = Append(@, Ev("upsert", s, <<d>>,
                                               IF u.indexed THEN "changed" ELSE "unchanged", i))])

\* a variant that marks a not-modified source as mutated
NotModifiedResultMutated(r0) ==
  [r0 EXCEPT !.Skipped = TRUE, !.Reason = "not modified", !.Mutated = TRUE]

\* FetchFeed: the result returned for a not-modified response
NotModifiedResult(r0) == [r0 EXCEPT !.Skipped = TRUE, !.Reason = "not modified"]

\* a variant that marks the source as mutated although the update failed
UpdateFailedResultMutated(r0) ==
  [r0 EXCEPT !.Err = <<"update feed">>, !.Reason = "update feed", !.Mutated = TRUE]

\* FetchFeed: the result returned when UpdateFeedCrawlState fails
UpdateFailedResult(r0) == [r0 EXCEPT !.Err = <<"update feed">>, !.Reason = "update feed"]

\* a variant that takes every successful response for one with a feed
NoContentNever(res) == FALSE

\* FetchFeed: the fetch succeeded but carries no feed
NoContent(res) == res.Feed.nil

\* FetchFeed for source row f at time t: the result and documents it returns
\* (none when it panics), the tracker and tables it leaves, the calls it made
FetchFeed(f, t, bo, ftbl, itbl, resp, upd, io) ==
  LET s == f.ID
      rem == Remaining(bo, s, t)
      base == [result |-> EmptyResult, docs |-> <<>>, backoff |-> rem.items,
               feedsTbl |-> ftbl, itemsTbl |-> itbl, evs |-> <<>>, panicked |-> FALSE,
               plain |-> FALSE]
  IN
  IF rem.wait > 0 THEN
    [base EXCEPT !.result = [EmptyResult EXCEPT !.Err = <<"ErrBackoffActive">>,
                                                !.RetryIn = rem.wait,
                                                !.Skipped = TRUE,
                                                !.Reason = "backoff active"],
                 !.evs = <<Ev("skip", s, <<>>, "", rem.wait)>>]
  ELSE IF resp.kind = "panic" THEN
    [base EXCEPT !.panicked = TRUE, !.evs = <<Ev("fetch", s, <<>>, "panic", 0)>>]
  ELSE
    LET res == Fetch(resp, f.ETag, f.LastModified)
        r0 == [EmptyResult EXCEPT !.Status = res.Status]
    IN
    IF res.err # "nil" THEN
      IF res.err = "ErrRetryLater" THEN
        LET sch == Schedule(rem.items, s, t, res.RetryAfter) IN
        [base EXCEPT !.result = [r0 EXCEPT !.Err = <<res.err>>,
                                           !.RetryIn = sch.duration,
                                           !.Reason = "retry scheduled"],
                     !.backoff = sch.items,
                     !.plain = res.RetryAfter <= 0,
                     !.evs = <<Ev("fetch", s, <<>>, res.err, res.RetryAfter),
                               Ev("schedule", s, <<>>, "", sch.duration)>>]
      ELSE
        [base EXCEPT !.result = [r0 EXCEPT !.Err = <<res.err>>, !.Reason = "fetch failed"],
                     !.evs = <<Ev("fetch", s, <<>>, res.err, res.RetryAfter)>>]
    ELSE
      LET bo2 == Reset(rem.items, s)
          evFetch == <<Ev("fetch", s, [i \in 1..Len(res.Feed.items) |-> Doc(s, i, res.Feed.items[i])],
                          IF res.Status # StatusNotModified /\ res.Feed.nil
                            THEN "nofeed" ELSE "ok",
                          res.Status),
                       Ev("reset", s, <<>>, "", 0)>>
      IN
      IF res.Status = StatusNotModified THEN
        [base EXCEPT !.result = NotModifiedResult(r0),
                     !.backoff = bo2, !.evs = evFetch]
      ELSE IF NoContent(res) THEN
        [base EXCEPT !.result = [r0 EXCEPT !.Skipped = TRUE, !.Reason = "no content"],
                     !.backoff = bo2, !.evs = evFetch]
      ELSE IF upd = "panic" THEN
        [base EXCEPT !.backoff = bo2, !.panicked = TRUE,
                     !.evs = Append(evFetch, Ev("update", s, <<>>, "panic", 0))]
      ELSE IF upd = "err" THEN
        [base EXCEPT !.result = UpdateFailedResult(r0),
                     !.backoff = bo2,
                     !.evs = Append(evFetch, Ev("update", s, <<>>, "err", 0))]
      ELSE
        LET ftbl2 == UpdateFeedCrawlState(ftbl, s, res.ETag, res.LastModified, t,
                                          IF res.Feed.title # 0 THEN res.Feed.title ELSE f.Title)
            st == ItemLoop(s, res.Feed.items, io, 1,
                           [tbl |-> itbl, docs |-> <<>>, Err |-> <<>>, Reason |-> "",
                            evs |-> Append(evFetch, Ev("update", s, <<>>, "ok", 0)),
                            panicked |-> FALSE])
        IN
        [result |-> [r0 EXCEPT !.Mutated = TRUE, !.Err = st.Err, !.Reason = st.Reason,
                               !.Items = Len(st.docs)],
         docs |-> IF st.panicked THEN <<>> ELSE st.docs,
         backoff |-> bo2, feedsTbl |-> ftbl2, itemsTbl |-> st.tbl,
         evs |-> st.evs, panicked |-> st.panicked, plain |-> FALSE]

\* ------------------------------------------------------------- indexer
\* outcomes of one indexer call
IndexOutcomes == {"ok", "err", "panic"}

\* upsertDocumentsIndividually over docs when the first k single upserts
\* succeed and the next one (if any) ends as sres: the calls made, the
\* number of documents indexed, the error, and whether a call panicked
\* a variant that goes on to the remaining documents after a failed upsert
upsertDocumentsIndividuallyNoStop(src, docs, k, sres) ==
  LET n == Min(k, Len(docs))
      all == [i \in 1..Len(docs) |->
                Ev("single", src, <<docs[i]>>, IF i = n + 1 THEN sres ELSE "ok", i)]
  IN IF n = Len(docs)
       THEN [evs |-> all, indexed |-> n, err |-> FALSE, panicked |-> FALSE]
       ELSE [evs |-> IF sres = "err" THEN all ELSE Take(all, n + 1),
             indexed |-> n, err |-> sres = "err", panicked |-> sres = "panic"]

upsertDocumentsIndividually(src, docs, k, sres) ==
  LET n == Min(k, Len(docs))
      oks == [i \in 1..n |-> Ev("single", src, <<docs[i]>>, "ok", i)]
  IN IF n = Len(docs)
       THEN [evs |-> oks, indexed |-> n, err |-> FALSE, panicked |-> FALSE]
       ELSE [evs |-> Append(oks, Ev("single", src, <<docs[n + 1]>>, sres, n + 1)),
             indexed |-> n, err |-> sres = "err", panicked |-> sres = "panic"]

\* a variant that removes one document more than it is asked to
removeFrontOneMore(pd, ndr, n0) ==
  [pd |-> Drop(pd, Min(n0 + 1, Len(pd))), ndr |-> Min(ndr, Len(pd) - Min(n0 + 1, Len(pd)))]

\* processFeed.removeFront: the queue and newDocsRemaining it leaves
removeFront(pd, ndr, n0) ==
  IF n0 <= 0 THEN [pd |-> pd, ndr |-> ndr]
  ELSE
    LET n == IF n0 > Len(pd) THEN Len(pd) ELSE n0
        start == Len(pd) - ndr
        removedNew == IF n > start THEN Min(n - start, ndr) ELSE 0
    IN [pd |-> Drop(pd, n), ndr |-> ndr - removedNew]

\* the deferred recover of processFeed: the queue without the documents the
\* panicking source still has in it, and the result with the panic joined in
\* a variant that empties the queue
RecoverQueueDropAll(pd, ndr) == IF ndr > 0 THEN <<>> ELSE pd

RecoverQueue(pd, ndr) ==
  IF ndr > 0
    THEN (IF Len(pd) >= ndr THEN Take(pd, Len(pd) - ndr) ELSE <<>>)
    ELSE pd

RecoverResult(res) ==
  [res EXCEPT !.Err = JoinErr(@, "panic"), !.Reason = IF @ = "" THEN "panic" ELSE @]

\* processFeed after a recovered panic: its result parameter has no name and
\* no return statement was reached, so run receives the zero FetchFeedResult;
\* what the deferred function stored in the local variable result is lost
ReturnAfterRecover(local) == EmptyResult

\* the switch of run that picks the log line for a source
LogLevel(res) ==
  IF res.Err # <<>> /\ "ErrBackoffActive" \in Range(res.Err) THEN "skipped"
  ELSE IF res.Err # <<>> THEN "error"
  ELSE IF res.Skipped THEN "skipped"
  ELSE "processed"

\* ------------------------------------------- entries at the level of SQL
\* A string of an item is empty, or text that does not parse as a URL with a
\* scheme, or the address of a page: host with some leading "www." labels,
\* port, path, one tracking parameter, one other parameter, fragment; pad
\* says the string is surrounded by white space.
Url(pad, www, port, path, track, keep, frag) ==
  [empty |-> FALSE, parses |-> TRUE, pad |-> pad, www |-> www, port |-> port,
   path |-> path, track |-> track, keep |-> keep, frag |-> frag]

NoText == [Url(FALSE, 0, "", "/a", "", FALSE, FALSE) EXCEPT !.empty = TRUE, !.parses = FALSE]

\* the strings the items of the entry model carry
Texts == {Url(FALSE, w, "", "/a", "", FALSE, f) : w \in 0..1, f \in BOOLEAN}

\* url.Parse followed by URL.String for a path the function left alone or
\* replaced: the escaped form of the input is kept only with an unchanged path
Paths == {"", "/", "/a", "/a/", "/a%2Fb", "/a%2Fb/"}

\* path.Clean of the decoded path, then the path as URL.String writes it
CleanPath(path) ==
  CASE path = "/a/" -> "/a"
    [] path = "/a%2Fb/" -> "/a/b"
    [] OTHER -> path

\* strings.ToLower of a parameter name
ToLower(name) == IF name = "GCLID" THEN "gclid" ELSE name

\* strings.HasPrefix(lower, "utm_")
HasUtmPrefix(lower) == lower = "utm_source"

trackingParameters == {"fbclid", "gclid", "gclsrc", "mc_cid", "mc_eid"}

isTrackingParameter(name) == name \in trackingParameters

\* item.normalizeURL: trims, drops a default port, the fragment and the
\* tracking parameters it knows, cleans the path (and keeps "www.")
normalizeURL(raw) ==
  IF raw.empty \/ ~raw.parses THEN [raw EXCEPT !.pad = FALSE]
  ELSE [raw EXCEPT !.pad = FALSE, !.frag = FALSE,
                   !.port = IF @ = "default" THEN "" ELSE @,
                   !.path = CleanPath(@),
                   !.track = IF HasUtmPrefix(ToLower(@))
                                  \/ ToLower(@) \in {"fbclid", "gclid", "mc_cid", "mc_eid"}
                               THEN "" ELSE @]

\* urlcanon.Normalize: one leading "www." label is removed from the host
StripWww(www) == IF www > 0 THEN www - 1 ELSE www

\* urlcanon.Normalize: trims, strips "www.", drops a default port, the
\* fragment and every tracking parameter, cleans the path and removes a
\* root or trailing slash
Normalize(raw) ==
  IF raw.empty \/ ~raw.parses THEN [raw EXCEPT !.pad = FALSE]
  ELSE [raw EXCEPT !.pad = FALSE, !.frag = FALSE,
                   !.www = StripWww(@),
                   !.port = IF @ = "default" THEN "" ELSE @,
                   !.path = IF CleanPath(@) = "/" THEN "" ELSE CleanPath(@),
                   !.track = IF HasUtmPrefix(ToLower(@)) \/ isTrackingParameter(ToLower(@))
                               THEN "" ELSE @]

\* the items a feed may carry: GUID (possibly empty), Link, content version
FeedItems == [GUID : {t \in Texts : ~t.frag} \cup {NoText}, Link : Texts, body : Versions]

\* item.FromFeedItem: the hash covers the guid, the url as normalizeURL
\* leaves it, and the content
FromFeedItem(feedID, fi) ==
  LET url == normalizeURL(fi.Link) IN
  [FeedID |-> feedID,
   GUID |-> [Valid |-> ~fi.GUID.empty, String |-> fi.GUID],
   URL |-> url,
   ContentText |-> fi.body,
   ContentHash |-> HashContent(feedID, <<fi.GUID, url>>, fi.body)]

\* FetchFeed: the parameters handed to repo.UpsertItem
UpsertParams(feedID, fi) ==
  LET params == FromFeedItem(feedID, fi)
  IN [params EXCEPT !.URL = Normalize(params.URL)]

\* COALESCE(guid, url) of a stored row or of the proposed row
Identity(r) == IF r.GUID.Valid THEN r.GUID.String ELSE r.URL

\* the rows selected by the "existing" CTE of UpsertItem
Existing(rows, arg) ==
  {i \in rows : /\ i.FeedID = arg.FeedID
                /\ \/ (i.GUID.Valid /\ arg.GUID.Valid /\ i.GUID.String = arg.GUID.String)
                   \/ (~arg.GUID.Valid /\ ~i.GUID.Valid /\ i.URL = arg.URL)}

\* the rows that conflict with the proposed row on items_identity_uniq
Conflicting(rows, arg) ==
  {i \in rows : i.FeedID = arg.FeedID /\ Identity(i) = Identity(arg)}

\* the UpsertItem query on the items table: INSERT ... ON CONFLICT (feed_id,
\* COALESCE(guid, url)) DO UPDATE (the guid column is not among the updated
\* ones), indexed = inserted OR e.content_hash IS DISTINCT FROM u.content_hash
SqlUpsertItem(rows, arg) ==
  LET new == [FeedID |-> arg.FeedID, GUID |-> arg.GUID, URL |-> arg.URL,
              ContentText |-> arg.ContentText, ContentHash |-> arg.ContentHash]
  IN
  IF Conflicting(rows, arg) = {}
    THEN [rows |-> rows \cup {new}, err |-> FALSE, row |-> new,
          inserted |-> TRUE, indexed |-> TRUE]
  ELSE
    LET old == CHOOSE i \in Conflicting(rows, arg) : TRUE
        u == [old EXCEPT !.URL = arg.URL, !.ContentText = arg.ContentText,
                         !.ContentHash = arg.ContentHash]
    IN IF \E i \in rows \ {old} : i.FeedID = u.FeedID /\ Identity(i) = Identity(u)
         THEN [rows |-> rows, err |-> TRUE, row |-> old,
               inserted |-> FALSE, indexed |-> FALSE]
         ELSE [rows |-> (rows \ {old}) \cup {u}, err |-> FALSE, row |-> u,
               inserted |-> FALSE,
               indexed |-> IF old \in Existing(rows, arg)
                             THEN old.ContentHash # u.ContentHash
                             ELSE TRUE]

\* ------------------------------------------------------------- actions
\* the largest number of items a feed of the run carries
FeedLen == IF Cardinality(DOMAIN feedsTbl) = 1 THEN MaxItems - 1 ELSE MaxItems

\* the rows a source may already have when the process starts: none, or a
\* row for identity 1 holding content version 1
InitialKeySets == {{}, {1}}

Init ==
  /\ probe = NoProbe
  /\ now = 0
  /\ tick = 0
  /\ pc = "run"
  /\ \E reg \in Registrations :
       /\ feedsTbl = [s \in reg |-> [etag |-> "", lm |-> "", lastCrawled |-> -1, title |-> 0]]
       /\ \E ks \in InitialKeySets :
            itemsTbl = [s \in reg |-> [k \in Keys |->
                          IF k \in ks THEN HashContent(s, k, 1) ELSE NoRow]]
  /\ backoffItems = <<>>
  /\ feeds = <<>>
  /\ idx = 0
  /\ pendingDocs = <<>>
  /\ newDocsRemaining = 0
  /\ result = EmptyResult
  /\ trace = <<>>
  /\ reports = <<>>
  /\ streak = [s \in DOMAIN feedsTbl |-> <<>>]

\* main: <-ticker.C between two ticks
TickerWait ==
  /\ UNCHANGED probe
  /\ pc = "wait"
  /\ tick < MaxTicks
  /\ Cardinality(DOMAIN feedsTbl) = 1
  /\ \E d \in TickSteps : now' = now + d
  /\ pc' = "run"
  /\ UNCHANGED <<tick, feedsTbl, itemsTbl, backoffItems, feeds, idx, pendingDocs,
                 newDocsRemaining, result, trace, reports, streak>>

\* run: ListFeeds succeeds, the queue is created empty
RunListFeeds ==
  /\ UNCHANGED probe
  /\ pc = "run"
  /\ tick' = tick + 1
  /\ feeds' = ListFeeds(feedsTbl)
  /\ idx' = 1
  /\ pendingDocs' = <<>>
  /\ newDocsRemaining' = 0
  /\ result' = EmptyResult
  /\ trace' = <<Ev("list", 0, <<>>, "ok", 0)>>
  /\ reports' = <<>>
  /\ pc' = "feed"
  /\ UNCHANGED <<now, feedsTbl, itemsTbl, backoffItems, streak>>

\* a variant in which a failed listing ends the process
RunListFeedsFailFatal ==
  /\ UNCHANGED probe
  /\ pc = "run"
  /\ tick' = tick + 1
  /\ feeds' = <<>>
  /\ idx' = 0
  /\ pendingDocs' = <<>>
  /\ newDocsRemaining' = 0
  /\ result' = EmptyResult
  /\ trace' = <<Ev("list", 0, <<>>, "err", 0)>>
  /\ reports' = <<>>
  /\ pc' = "crashed"
  /\ UNCHANGED <<now, feedsTbl, itemsTbl, backoffItems, streak>>

\* run: ListFeeds fails, run returns
RunListFeedsFail ==
  /\ UNCHANGED probe
  /\ pc = "run"
  /\ tick' = tick + 1
  /\ feeds' = <<>>
  /\ idx' = 0
  /\ pendingDocs' = <<>>
  /\ newDocsRemaining' = 0
  /\ result' = EmptyResult
  /\ trace' = <<Ev("list", 0, <<>>, "err", 0)>>
  /\ reports' = <<>>
  /\ pc' = "wait"
  /\ UNCHANGED <<now, feedsTbl, itemsTbl, backoffItems, streak>>

\* the fetcher process is not running: a component is exercised on its own
IdleMain ==
  /\ now = 0 /\ tick = 0 /\ pc = "idle"
  /\ feedsTbl = <<>> /\ itemsTbl = <<>> /\ backoffItems = <<>>
  /\ feeds = <<>> /\ idx = 0
  /\ pendingDocs = <<>> /\ newDocsRemaining = 0
  /\ result = EmptyResult /\ trace = <<>> /\ reports = <<>> /\ streak = <<>>

\* a variant in which an error of a source ends the loop over the sources
ReportAbortOnError(s, res) ==
  /\ reports' = Append(reports, [src |-> s, result |-> res, level |-> LogLevel(res)])
  /\ idx' = idx + 1
  /\ pc' = IF idx + 1 > Len(feeds) \/ LogLevel(res) = "error" THEN "flush" ELSE "feed"
  /\ newDocsRemaining' = 0
  /\ result' = EmptyResult

\* processFeed returns res to run: run logs it and moves to the next source
Report(s, res) ==
  /\ reports' = Append(reports, [src |-> s, result |-> res, level |-> LogLevel(res)])
  /\ idx' = idx + 1
  /\ pc' = IF idx + 1 > Len(feeds) THEN "flush" ELSE "feed"
  /\ newDocsRemaining' = 0
  /\ result' = EmptyResult

\* processFeed up to the flush loop: FetchFeed, then its documents are
\* appended to the queue; a panic inside FetchFeed is recovered
ProcessFeedFetch ==
  /\ UNCHANGED probe
  /\ pc = "feed"
  /\ \E resp \in {r \in Responses : Len(r.body) <= FeedLen} :
     \E upd \in (IF resp.parse = "ok" THEN RepoOutcomes ELSE {"ok"}) :
     \E io \in [1..Len(resp.body) -> RepoOutcomes] :
       LET f == feeds[idx]
           o == FetchFeed(f, now, backoffItems, feedsTbl, itemsTbl, resp, upd, io)
       IN /\ backoffItems' = o.backoff
          /\ streak' = IF o.result.Skipped /\ o.result.Err # <<>> THEN streak
                       ELSE IF o.plain
                         THEN [streak EXCEPT ![f.ID] = Append(@, o.result.RetryIn)]
                       ELSE [streak EXCEPT ![f.ID] = <<>>]
          /\ feedsTbl' = o.feedsTbl
          /\ itemsTbl' = o.itemsTbl
          /\ IF o.panicked
               THEN /\ pendingDocs' = RecoverQueue(pendingDocs, 0)
                    /\ trace' = trace \o o.evs \o <<Ev("recover", f.ID, <<>>, "", 0)>>
                    /\ Report(f.ID, ReturnAfterRecover(RecoverResult(EmptyResult)))
               ELSE /\ pendingDocs' = pendingDocs \o o.docs
                    /\ newDocsRemaining' = Len(o.docs)
                    /\ result' = o.result
                    /\ trace' = IF Len(o.docs) > 0
                                  THEN trace \o o.evs \o <<Ev("enqueue", f.ID, o.docs, "", Len(o.docs))>>
                                  ELSE trace \o o.evs
                    /\ pc' = "srcflush"
                    /\ UNCHANGED <<idx, reports>>
  /\ UNCHANGED <<now, tick, feeds>>

\* a variant that sends the whole queue in one bulk call
ChunkAll(pd) == pd

\* processFeed: the chunk of a per-source flush, (*pendingDocs)[:batchSize]
Chunk(pd) == Take(pd, BatchSize)

\* processFeed: one iteration of the loop that flushes full batches
SrcFlushIter ==
  /\ UNCHANGED probe
  /\ pc = "srcflush"
  /\ Len(pendingDocs) >= BatchSize
  /\ \E bulk \in IndexOutcomes, k \in 0..BatchSize, sres \in {"err", "panic"} :
       LET s == feeds[idx].ID
           chunk == Chunk(pendingDocs)
           evBulk == Ev("bulk", s, chunk, bulk, Len(chunk))
           fb == upsertDocumentsIndividually(s, chunk, k, sres)
           q1 == removeFront(pendingDocs, newDocsRemaining, fb.indexed)
           q2 == IF Len(q1.pd) > 0 THEN removeFront(q1.pd, q1.ndr, 1) ELSE q1
       IN
       IF bulk = "ok" THEN
         LET q == removeFront(pendingDocs, newDocsRemaining, BatchSize) IN
         /\ pendingDocs' = q.pd
         /\ newDocsRemaining' = q.ndr
         /\ trace' = Append(trace, evBulk)
         /\ UNCHANGED <<result, pc, idx, reports>>
       ELSE IF bulk = "panic" \/ fb.panicked THEN
         /\ pendingDocs' = RecoverQueue(pendingDocs, newDocsRemaining)
         /\ trace' = (IF bulk = "panic" THEN Append(trace, evBulk)
                      ELSE Append(trace, evBulk) \o fb.evs)
                     \o <<Ev("recover", s,
                             Drop(pendingDocs, Len(RecoverQueue(pendingDocs, newDocsRemaining))),
                             "", 0)>>
         /\ Report(s, ReturnAfterRecover(RecoverResult(result)))
       ELSE IF fb.err THEN
         /\ pendingDocs' = q2.pd
         /\ newDocsRemaining' = q2.ndr
         /\ result' = [result EXCEPT !.Err = JoinErr(JoinErr(@, "bulk"), "fallback"),
                                     !.Reason = IF @ = "" THEN "search upsert" ELSE @]
         /\ trace' = Append(trace, evBulk) \o fb.evs
                     \o (IF Len(q1.pd) > 0 THEN <<Ev("drop", s, <<q1.pd[1]>>, "", 0)>> ELSE <<>>)
         /\ UNCHANGED <<pc, idx, reports>>
       ELSE
         /\ pendingDocs' = q1.pd
         /\ newDocsRemaining' = q1.ndr
         /\ trace' = Append(trace, evBulk) \o fb.evs
         /\ UNCHANGED <<result, pc, idx, reports>>
  /\ UNCHANGED <<now, tick, feedsTbl, itemsTbl, backoffItems, feeds, streak>>

\* processFeed: fewer than a batch is pending, it returns its result
SrcFlushDone ==
  /\ UNCHANGED probe
  /\ pc = "srcflush"
  /\ Len(pendingDocs) < BatchSize
  /\ Report(feeds[idx].ID, result)
  /\ UNCHANGED <<now, tick, feedsTbl, itemsTbl, backoffItems, feeds, pendingDocs, trace, streak>>

\* a variant that leaves the failing document at the head of the queue
DropFailedKeeps(pd) == pd

\* run: the document whose single upsert failed is dropped from the head
DropFailed(pd) == IF Len(pd) > 0 THEN Drop(pd, 1) ELSE pd

\* run: one iteration of the tick-end flush loop
FinalFlushIter ==
  /\ UNCHANGED probe
  /\ pc = "flush"
  /\ Len(pendingDocs) > 0
  /\ \E bulk \in IndexOutcomes, k \in 0..BatchSize, sres \in {"err", "panic"} :
       LET chunkSize == IF BatchSize > Len(pendingDocs) THEN Len(pendingDocs) ELSE BatchSize
           chunk == Take(pendingDocs, chunkSize)
           evBulk == Ev("bulk", 0, chunk, bulk, Len(chunk))
           fb == upsertDocumentsIndividually(0, chunk, k, sres)
           p1 == Drop(pendingDocs, fb.indexed)
       IN
       IF bulk = "ok" THEN
         /\ pendingDocs' = Drop(pendingDocs, chunkSize)
         /\ trace' = Append(trace, evBulk)
         /\ pc' = pc
       ELSE IF bulk = "panic" \/ fb.panicked THEN
         /\ pendingDocs' = pendingDocs
         /\ trace' = IF bulk = "panic" THEN Append(trace, evBulk)
                     ELSE Append(trace, evBulk) \o fb.evs
         /\ pc' = "crashed"
       ELSE IF fb.err THEN
         /\ pendingDocs' = DropFailed(p1)
         /\ trace' = Append(trace, evBulk) \o fb.evs
                     \o (IF Len(p1) > 0 THEN <<Ev("drop", 0, <<p1[1]>>, "", 0)>> ELSE <<>>)
         /\ pc' = pc
       ELSE
         /\ pendingDocs' = p1
         /\ trace' = Append(trace, evBulk) \o fb.evs
         /\ pc' = pc
  /\ UNCHANGED <<now, tick, feedsTbl, itemsTbl, backoffItems, feeds, idx,
                 newDocsRemaining, result, reports, streak>>

\* run: the queue is empty, run returns
FinalFlushDone ==
  /\ UNCHANGED probe
  /\ pc = "flush"
  /\ Len(pendingDocs) = 0
  /\ pc' = "wait"
  /\ trace' = Append(trace, Ev("end", 0, <<>>, "", 0))
  /\ UNCHANGED <<now, tick, feedsTbl, itemsTbl, backoffItems, feeds, idx, pendingDocs,
                 newDocsRemaining, result, reports, streak>>

Next ==
  \/ TickerWait
  \/ RunListFeeds
  \/ RunListFeedsFail
  \/ ProcessFeedFetch
  \/ SrcFlushIter
  \/ SrcFlushDone
  \/ FinalFlushIter
  \/ FinalFlushDone

Spec == Init /\ [][Next]_vars

\* ------------------------------------------- backoffTracker on its own
\* The tracker is called with the time its caller read from the clock, which
\* never runs backwards; probe.last records the latest call.
InitTracker ==
  /\ IdleMain
  /\ probe = [op |-> "tracker", items |-> <<>>, clock |-> 0, calls |-> 0,
              last |-> [call |-> "new"]]

TrackerCall(t, rec, items) ==
  probe' = [probe EXCEPT !.items = items, !.clock = t, !.calls = @ + 1,
                         !.last = rec]

\* backoffTracker.Remaining(id, t)
TrackerRemaining ==
  /\ probe.op = "tracker" /\ probe.calls < MaxCalls
  /\ \E id \in Sources, d \in {0} \cup TickSteps :
       LET t == probe.clock + d
           r == Remaining(probe.items, id, t)
       IN TrackerCall(t, [call |-> "Remaining", id |-> id, t |-> t, suggested |-> 0,
                          before |-> probe.items, ret |-> r.wait], r.items)
  /\ UNCHANGED mainVars

\* backoffTracker.Schedule(id, t, suggested)
TrackerSchedule ==
  /\ probe.op = "tracker" /\ probe.calls < MaxCalls
  /\ \E id \in Sources, d \in {0} \cup TickSteps, suggested \in RetryAfterValues :
       LET t == probe.clock + d
           r == Schedule(probe.items, id, t, suggested)
       IN TrackerCall(t, [call |-> "Schedule", id |-> id, t |-> t, suggested |-> suggested,
                          before |-> probe.items, ret |-> r.duration], r.items)
  /\ UNCHANGED mainVars

\* backoffTracker.Reset(id)
TrackerReset ==
  /\ probe.op = "tracker" /\ probe.calls < MaxCalls
  /\ \E id \in Sources, d \in {0} \cup TickSteps :
       LET t == probe.clock + d
       IN TrackerCall(t, [call |-> "Reset", id |-> id, t |-> t, suggested |-> 0,
                          before |-> probe.items, ret |-> 0], Reset(probe.items, id))
  /\ UNCHANGED mainVars

NextTracker == TrackerRemaining \/ TrackerSchedule \/ TrackerReset

SpecTracker == InitTracker /\ [][NextTracker]_vars

\* ------------------------------------------------- Snapshot on its own
\* A DSN is empty, or text url.Parse rejects, or a URL with optional user
\* information (user name, optional password) and query parameters; a
\* parameter is absent or has one of two values.
QueryKeys == {"password", "pass", "pwd", "password_file", "keep"}

SensitiveKeys == {"password", "pass", "pwd", "password_file"}

\* the user information of a DSN: none, or a name ("" or "user") with or
\* without a password
UserInfos ==
  {[set |-> FALSE, name |-> "", pw |-> "none"]}
    \cup {[set |-> TRUE, name |-> n, pw |-> w] : n \in {"", "user"}, w \in {"none", "s1", "s2"}}

DSNs ==
  {[kind |-> "url", user |-> u, query |-> q] :
     u \in UserInfos, q \in [QueryKeys -> {"absent", "v1", "v2"}]}
    \cup {[kind |-> k, user |-> [set |-> FALSE, name |-> "", pw |-> "none"],
           query |-> [key \in QueryKeys |-> "absent"]] : k \in {"empty", "invalid"}}

\* sanitizeDSN: "" stays, an unparsable DSN becomes "<redacted>", otherwise
\* the user information is replaced by the user name alone
sanitizeDSN(dsn) ==
  IF dsn.kind = "empty" THEN dsn
  ELSE IF dsn.kind = "invalid" THEN [dsn EXCEPT !.kind = "<redacted>"]
  ELSE IF dsn.user.set THEN [dsn EXCEPT !.user.pw = "none"]
  ELSE dsn

\* RuntimeConfig.Snapshot, the database part
Snapshot(cfg) ==
  [Service |-> cfg.Service,
   Database |-> [Driver |-> cfg.Database.Driver, DSN |-> sanitizeDSN(cfg.Database.DSN)]]

RuntimeConfigs ==
  {[Service |-> "test", Database |-> [Driver |-> "pgx", DSN |-> d]] : d \in DSNs}

InitSnapshot ==
  /\ IdleMain
  /\ \E cfg \in RuntimeConfigs : probe = [op |-> "snapshot", done |-> FALSE, cfg |-> cfg]

\* one call of RuntimeConfig.Snapshot
SnapshotOnce ==
  /\ probe.op = "snapshot"
  /\ ~probe.done
  /\ probe' = [op |-> "snapshot", done |-> TRUE, cfg |-> probe.cfg,
               out |-> Snapshot(probe.cfg)]
  /\ UNCHANGED mainVars

NextSnapshot == SnapshotOnce

SpecSnapshot == InitSnapshot /\ [][NextSnapshot]_vars

\* ------------------------------------------------ CleanHTML on its own
\* A text is a sequence of runs: n times the rune ch, a letter "a", a space
\* " " or a "!"; script marks the runes that come from inside a script or
\* style element.
Run(ch, n, script) == [ch |-> ch, n |-> n, script |-> script]

RECURSIVE RuneCount(_)
RuneCount(s) == IF s = <<>> THEN 0 ELSE Head(s).n + RuneCount(Tail(s))

RECURSIVE TrimLeft(_)
TrimLeft(s) == IF s # <<>> /\ Head(s).ch = " " THEN TrimLeft(Tail(s)) ELSE s

RECURSIVE TrimRight(_)
TrimRight(s) ==
  IF s # <<>> /\ s[Len(s)].ch = " " THEN TrimRight(SubSeq(s, 1, Len(s) - 1)) ELSE s

\* strings.TrimSpace
TrimSpace(s) == TrimRight(TrimLeft(s))

\* strings.Join(strings.Fields(s), " ") of a trimmed text
RECURSIVE JoinFields(_)
JoinFields(s) ==
  IF s = <<>> THEN <<>>
  ELSE IF Head(s).ch # " " THEN <<Head(s)>> \o JoinFields(Tail(s))
  ELSE IF Len(s) > 1 /\ s[2].ch = " " THEN JoinFields(Tail(s))
  ELSE <<[Head(s) EXCEPT !.n = 1]>> \o JoinFields(Tail(s))

collapseWhitespace(s) == JoinFields(TrimSpace(s))

\* punctuationReplacer.Replace: a space right before a "!" is removed
RECURSIVE cleanupPunctuation(_)
cleanupPunctuation(s) ==
  IF s = <<>> THEN <<>>
  ELSE IF Head(s).ch = " " /\ Len(s) > 1 /\ s[2].ch = "!"
    THEN (IF Head(s).n > 1 THEN <<[Head(s) EXCEPT !.n = @ - 1]>> ELSE <<>>)
           \o cleanupPunctuation(Tail(s))
  ELSE <<Head(s)>> \o cleanupPunctuation(Tail(s))

\* runes[:k]
RECURSIVE TakeRunes(_, _)
TakeRunes(s, k) ==
  IF s = <<>> \/ k <= 0 THEN <<>>
  ELSE IF Head(s).n <= k THEN <<Head(s)>> \o TakeRunes(Tail(s), k - Head(s).n)
  ELSE <<[Head(s) EXCEPT !.n = k]>>

\* a variant of truncate that returns the text as it is
truncateKeepsAll(s, max) == s

\* truncate
truncate(s, max) ==
  IF max <= 0 THEN s
  ELSE IF RuneCount(s) <= max THEN s
  ELSE LET truncated == TrimSpace(TakeRunes(s, max))
       IN IF truncated = <<>> THEN TakeRunes(s, max) ELSE truncated

\* walk over the parsed nodes in document order: an element with one text
\* child; script and style elements are not entered
RECURSIVE walk(_, _)
walk(nodes, builder) ==
  IF nodes = <<>> THEN builder
  ELSE IF Head(nodes).elem \in {"script", "style"} THEN walk(Tail(nodes), builder)
  ELSE LET text == collapseWhitespace(Head(nodes).text)
       IN walk(Tail(nodes),
               IF text = <<>> THEN builder
               ELSE IF builder # <<>> THEN builder \o <<Run(" ", 1, FALSE)>> \o text
               ELSE text)

\* the input as plain text, for the branch taken when parsing fails
RECURSIVE RawText(_)
RawText(nodes) == IF nodes = <<>> THEN <<>> ELSE Head(nodes).text \o RawText(Tail(nodes))

\* CleanHTML(input, max); input.nodes is empty for a blank input
CleanHTML(input, max) ==
  IF input.nodes = <<>> THEN <<>>
  ELSE LET m == IF max <= 0 THEN defaultMaxLength ELSE max
       IN IF input.parseErr
            THEN truncate(cleanupPunctuation(collapseWhitespace(RawText(input.nodes))), m)
          ELSE truncate(cleanupPunctuation(collapseWhitespace(walk(input.nodes, <<>>))), m)

\* the texts an element may hold, before the origin of their runes is marked
TextSamples ==
  {<<>>,
   <<Run(" ", 1, FALSE)>>,
   <<Run("a", 1, FALSE)>>,
   <<Run("a", defaultMaxLength + 1, FALSE)>>,
   <<Run("a", 1, FALSE), Run(" ", 2, FALSE), Run("!", 1, FALSE)>>,
   <<Run(" ", 1, FALSE), Run("a", 2, FALSE), Run(" ", 1, FALSE)>>,
   <<Run("a", 1, FALSE), Run(" ", defaultMaxLength, FALSE), Run("a", 1, FALSE)>>,
   <<Run("!", 1, FALSE), Run("a", defaultMaxLength, FALSE)>>}

\* an element and its text; the runes of a script or style element are marked
Node(elem, text) ==
  [elem |-> elem,
   text |-> [i \in DOMAIN text |-> [text[i] EXCEPT !.script = elem \in {"script", "style"}]]]

Nodes == {Node(e, t) : e \in {"p", "script", "style"}, t \in TextSamples}

\* the fragments handed to CleanHTML; parsing a string held in memory does
\* not fail
Fragments ==
  {[nodes |-> ns, parseErr |-> FALSE] : ns \in UNION {[1..k -> Nodes] : k \in 0..MaxNodes}}

InitClean ==
  /\ IdleMain
  /\ \E f \in Fragments, max \in {0 - 1, 0, 1, 2, 3} :
       probe = [op |-> "clean", done |-> FALSE, input |-> f, max |-> max]

\* one call of CleanHTML
CleanOnce ==
  /\ probe.op = "clean"
  /\ ~probe.done
  /\ probe' = [op |-> "clean", done |-> TRUE, input |-> probe.input,
               max |-> probe.max, out |-> CleanHTML(probe.input, probe.max)]
  /\ UNCHANGED mainVars

NextClean == CleanOnce

SpecClean == InitClean /\ [][NextClean]_vars

\* ----------------------------------------------- Normalize on its own
\* the names the tracking parameter of a link may have ("" when it has none)
ParamNames ==
  {"", "utm_source", "fbclid", "gclid", "GCLID", "gclsrc", "mc_cid", "mc_eid"}

\* the links handed to Normalize
Urls ==
  {Url(pad, w, port, path, t, k, f) :
     pad \in BOOLEAN, w \in 0..MaxWww, port \in {"", "default", "8443"},
     path \in Paths, t \in ParamNames, k \in BOOLEAN, f \in BOOLEAN}

\* the empty string, white space only, and text that is not a URL
NonUrls ==
  {[NoText EXCEPT !.pad = pad] : pad \in BOOLEAN}
    \cup {[Url(pad, 0, "", "", "", FALSE, FALSE) EXCEPT !.parses = FALSE] : pad \in BOOLEAN}

InitNormalize ==
  /\ IdleMain
  /\ \E u \in Urls \cup NonUrls : probe = [op |-> "normalize", done |-> FALSE, in |-> u]

\* one call of urlcanon.Normalize
NormalizeOnce ==
  /\ probe.op = "normalize"
  /\ ~probe.done
  /\ probe' = [op |-> "normalize", done |-> TRUE, in |-> probe.in,
               out |-> Normalize(probe.in)]
  /\ UNCHANGED mainVars

NextNormalize == NormalizeOnce

SpecNormalize == InitNormalize /\ [][NextNormalize]_vars

\* --------------------------------------------- HashContent on its own
\* The byte stream HashContent writes to the hash; the hash itself is taken
\* to be collision-free, so two fingerprints are equal exactly when the
\* streams are.
\* bytes of a part: the zero byte and one other byte
Bytes == {0, 1}

SeqsUpTo(S, n) == UNION {[1..k -> S] : k \in 0..n}

\* the strings passed as parts
Parts == SeqsUpTo(Bytes, MaxPartLen)

\* the argument lists of the variadic HashContent
PartTuples == SeqsUpTo(Parts, MaxParts)

\* HashContent: every part is written followed by one zero byte
RECURSIVE HashStream(_)
HashStream(parts) ==
  IF parts = <<>> THEN <<>>
  ELSE Head(parts) \o <<0>> \o HashStream(Tail(parts))

InitHash ==
  /\ IdleMain
  /\ \E a \in PartTuples : probe = [op |-> "hash", done |-> FALSE, parts |-> a]

\* one call of HashContent
HashOnce ==
  /\ probe.op = "hash"
  /\ ~probe.done
  /\ probe' = [op |-> "hash", done |-> TRUE, parts |-> probe.parts,
               stream |-> HashStream(probe.parts)]
  /\ UNCHANGED mainVars

NextHash == HashOnce

SpecHash == InitHash /\ [][NextHash]_vars

\* --------------------------------------------------- Fetch on its own
\* One exchange of the conditional fetcher with arbitrary prior validators.
\* the validators a response may carry, each on its own
ValidatorMetas ==
  {[etag |-> e, lm |-> m, title |-> 1] : e \in {"", "e1"}, m \in {"", "m1"}}

\* the prior validators a caller may supply
PriorValidators == [etag : {"", "e0"}, lm : {"", "m0"}]

\* the Retry-After headers a response may carry
RetryAfterHeaders ==
  {[kind |-> "absent", value |-> 0], [kind |-> "invalid", value |-> 0]}
    \cup {[kind |-> "seconds", value |-> v] : v \in {0 - BackoffMin, 0, 2 * BackoffMin}}
    \cup {[kind |-> "date", value |-> v] : v \in {BackoffMin, BackoffMin + BackoffMax}}

\* the statuses a response may carry
Statuses ==
  {StatusOK, StatusNotModified, StatusNotFound, StatusTooManyRequests,
   StatusServiceUnavailable, 408, 500, 502, 504}

\* the exchanges checked: the time of the call, the prior validators, the
\* Retry-After header and the response
Exchanges ==
  {[at |-> t, prior |-> prior, header |-> h,
    resp |-> Resp(kind, st, m, parseRetryAfter(h, t), parse,
                  IF parse = "ok" THEN <<1>> ELSE <<>>)] :
     t \in {0, 2 * BackoffMin}, prior \in PriorValidators, h \in RetryAfterHeaders,
     st \in Statuses, m \in ValidatorMetas, parse \in {"ok", "err"},
     kind \in {"http", "neterr-transient", "neterr-other"}}

InitFetch ==
  /\ IdleMain
  /\ \E x \in Exchanges : probe = [op |-> "fetch", done |-> FALSE, in |-> x]

\* one call of Fetcher.Fetch
FetchOnce ==
  /\ probe.op = "fetch"
  /\ ~probe.done
  /\ probe' = [op |-> "fetch", done |-> TRUE, at |-> probe.in.at,
               prior |-> probe.in.prior, header |-> probe.in.header,
               resp |-> probe.in.resp,
               req |-> Request(probe.in.prior.etag, probe.in.prior.lm),
               out |-> Fetch(probe.in.resp, probe.in.prior.etag, probe.in.prior.lm)]
  /\ UNCHANGED mainVars

NextFetch == FetchOnce

SpecFetch == InitFetch /\ [][NextFetch]_vars

\* ------------------------------------------------ the item loop on its own
\* The items of source 1 are handed one after the other, as over successive
\* ticks, to FromFeedItem, urlcanon.Normalize and the UpsertItem query; the
\* probe keeps the items table, the last two calls and what was enqueued.
InitUpsert ==
  /\ IdleMain
  /\ probe = [op |-> "upsert", rows |-> {}, calls |-> <<>>]

\* one pass of the item loop of FetchFeed for item fi
UpsertEntry ==
  /\ probe.op = "upsert"
  /\ \E fi \in FeedItems :
       LET arg == UpsertParams(1, fi)
           out == SqlUpsertItem(probe.rows, arg)
           call == [arg |-> arg, err |-> out.err, inserted |-> out.inserted,
                    indexed |-> out.indexed, row |-> out.row, before |-> probe.rows,
                    docs |-> IF out.err THEN <<>>
                             ELSE AppendIfIndexed(<<>>, Identity(out.row), out.indexed)]
       IN probe' = [probe EXCEPT !.rows = out.rows,
                                 !.calls = IF @ = <<>> THEN <<call>> ELSE <<@[Len(@)], call>>]
  /\ UNCHANGED mainVars

NextUpsert == UpsertEntry

SpecUpsert == InitUpsert /\ [][NextUpsert]_vars

\* ------------------------------------------- an entry over three ticks
\* Source 1 carries one entry on each of three ticks: some entry on the
\* first, and one and the same entry on the second and the third.  Each tick
\* runs the item loop of FetchFeed for the entry and then flushes the
\* document it enqueued; the probe keeps the items table and, per tick, what
\* the upsert reported, what was enqueued and how it left the queue.
Plans == {<<first, again, again>> : first, again \in FeedItems}

\* how the only document of the queue leaves it in the flush of processFeed
\* (batch size 1): confirmed by the bulk call, dropped after the bulk call
\* and its own single upsert failed, or discarded by the recover after a
\* panic of the indexer
QueueExit(ix) ==
  IF ix = "ok" THEN "confirmed" ELSE IF ix = "err" THEN "dropped" ELSE "discarded"

InitRequeue ==
  /\ IdleMain
  /\ \E plan \in Plans : probe = [op |-> "requeue", plan |-> plan, rows |-> {}, calls |-> <<>>]

\* one tick: the item loop for the entry of the tick, then the flush
RequeueTick ==
  /\ probe.op = "requeue"
  /\ Len(probe.calls) < Len(probe.plan)
  /\ \E ix \in IndexOutcomes :
       LET arg == UpsertParams(1, probe.plan[Len(probe.calls) + 1])
           out == SqlUpsertItem(probe.rows, arg)
           docs == IF out.err THEN <<>>
                   ELSE AppendIfIndexed(<<>>, Identity(out.row), out.indexed)
           call == [arg |-> arg, err |-> out.err, indexed |-> out.indexed, docs |-> docs,
                    left |-> IF docs = <<>> THEN "none" ELSE QueueExit(ix)]
       IN probe' = [probe EXCEPT !.rows = out.rows, !.calls = Append(@, call)]
  /\ UNCHANGED mainVars

NextRequeue == RequeueTick

SpecRequeue == InitRequeue /\ [][NextRequeue]_vars

\* ---------------------------------------------------------------------
\* Properties.  The history of a tick is read by position.
TraceIdx == 1..Len(trace)

IsIndexerCall(e) == e.ev \in {"bulk", "single"}

\* the indexer call at position i names document d
Offered(i, d) == IsIndexerCall(trace[i]) /\ d \in Range(trace[i].docs)

Enqueued(d) == \E j \in TraceIdx : trace[j].ev = "enqueue" /\ d \in Range(trace[j].docs)

\* a call made inside FetchFeed for source s panicked
FetchPanicked(s) ==
  \E j \in TraceIdx : /\ trace[j].src = s
                      /\ trace[j].ev \in {"fetch", "update", "upsert"}
                      /\ trace[j].res = "panic"

\* C1 as stated: a document is queued for an item if and only if its upsert
\* succeeded and reported the entry changed, and an unchanged entry causes no
\* index write.  Refuted by a panic after a changed upsert.
C1_Original ==
  \A i \in TraceIdx :
    trace[i].ev = "upsert" =>
      /\ (trace[i].res = "changed") <=> Enqueued(trace[i].docs[1])
      /\ trace[i].res # "changed" => \A j \in TraceIdx : ~Offered(j, trace[i].docs[1])

\* C1 (amended): a document is queued for an item only if its upsert
\* succeeded and reported the entry changed; every such item's document is
\* queued unless a call inside FetchFeed panics for its source; every document
\* named in an indexer call was queued, and an item whose upsert failed or
\* reported unchanged is never named in an indexer call.
C1_ChangeGatedIndexing ==
  \A i \in TraceIdx :
    /\ trace[i].ev = "enqueue" =>
         \A d \in Range(trace[i].docs) :
           \E j \in 1..(i - 1) : /\ trace[j].ev = "upsert"
                                 /\ trace[j].docs = <<d>>
                                 /\ trace[j].res = "changed"
    /\ (trace[i].ev = "upsert" /\ trace[i].res = "changed" /\ ~FetchPanicked(trace[i].src))
         => Enqueued(trace[i].docs[1])
    /\ (trace[i].ev = "upsert" /\ trace[i].res # "changed")
         => /\ ~Enqueued(trace[i].docs[1])
            /\ \A j \in TraceIdx : ~Offered(j, trace[i].docs[1])
    /\ IsIndexerCall(trace[i]) => \A d \in Range(trace[i].docs) : Enqueued(d)

C1_Witness ==
  \E i, j, k \in TraceIdx :
    /\ trace[i].ev = "upsert" /\ trace[i].res = "unchanged"
    /\ trace[j].ev = "upsert" /\ trace[j].res = "changed"
    /\ trace[k].ev = "bulk" /\ trace[j].docs[1] \in Range(trace[k].docs)

\* the step is one iteration of a flush loop (per source or at tick end)
FlushStep ==
  /\ pc \in {"srcflush", "flush"}
  /\ Len(trace') > Len(trace)
  /\ trace'[Len(trace) + 1].ev = "bulk"

\* C2: when the bulk upsert of a chunk fails, the chunk's documents are
\* upserted one at a time in queue order; the pass stops at the first failing
\* document; the documents before it (and the failing one) leave the queue,
\* only the failure is recorded, and no later document is attempted.
C2_Step ==
  (FlushStep /\ trace'[Len(trace) + 1].res = "err") =>
    LET b == Len(trace) + 1
        chunk == trace'[b].docs
        S == {j \in (b + 1)..Len(trace') : trace'[j].ev = "single"}
        m == Cardinality(S)
    IN /\ chunk = Take(pendingDocs, Len(chunk))
       /\ S = (b + 1)..(b + m)
       /\ m >= 1 /\ m <= Len(chunk)
       /\ \A t \in 1..m : trace'[b + t].docs = <<chunk[t]>>
       /\ \A t \in 1..(m - 1) : trace'[b + t].res = "ok"
       /\ m < Len(chunk) => trace'[b + m].res # "ok"
       /\ trace'[b + m].res = "err" =>
            /\ pendingDocs' = Drop(pendingDocs, m)
            /\ pc = "srcflush" => result'.Err = result.Err \o <<"bulk", "fallback">>
       /\ trace'[b + m].res = "ok" =>
            /\ pendingDocs' = Drop(pendingDocs, m)
            /\ result' = result

C2_FallbackPass == [][C2_Step]_vars

C2_Witness ==
  \E i \in TraceIdx :
    /\ i + 2 <= Len(trace)
    /\ trace[i].ev = "bulk" /\ trace[i].res = "err" /\ Len(trace[i].docs) > 2
    /\ trace[i + 1].ev = "single" /\ trace[i + 1].res = "ok"
    /\ trace[i + 2].ev = "single" /\ trace[i + 2].res = "err"
    /\ (i + 3 > Len(trace) \/ trace[i + 3].ev # "single")

\* the bulk call whose fallback pass made the single call at position i
BulkOf(i) == CHOOSE b \in 1..(i - 1) :
               /\ trace[b].ev = "bulk"
               /\ \A j \in (b + 1)..(i - 1) : trace[j].ev = "single"

FailedSingle(i) == trace[i].ev = "single" /\ trace[i].res = "err"

\* C3 as stated: after a single upsert fails, neither that document nor any
\* document after it in the failed chunk is offered to the indexer again in
\* the tick.  Refuted: the later documents stay queued and are sent again.
C3_Original ==
  \A i \in TraceIdx :
    FailedSingle(i) =>
      LET chunk == trace[BulkOf(i)].docs
          p == i - BulkOf(i)
      IN \A j \in (i + 1)..Len(trace), t \in p..Len(chunk) : ~Offered(j, chunk[t])

\* C3 (amended): after a single upsert fails, that document is dropped from
\* the queue and is not offered to the indexer again in the tick; each
\* document after it in the failed chunk is still queued, or has been offered
\* again by a later call, or was discarded by the recovery of a panic.
C3_FailedDocNotRetried ==
  \A i \in TraceIdx :
    FailedSingle(i) =>
      LET chunk == trace[BulkOf(i)].docs
          p == i - BulkOf(i)
      IN /\ chunk[p] \notin Range(pendingDocs)
         /\ \A j \in (i + 1)..Len(trace) : ~Offered(j, chunk[p])
         /\ \A t \in (p + 1)..Len(chunk) :
              \/ chunk[t] \in Range(pendingDocs)
              \/ \E j \in (i + 1)..Len(trace) : Offered(j, chunk[t])
              \/ \E j \in (i + 1)..Len(trace) :
                   trace[j].ev = "recover" /\ chunk[t] \in Range(trace[j].docs)

C3_Witness ==
  \E i \in TraceIdx :
    /\ FailedSingle(i)
    /\ LET chunk == trace[BulkOf(i)].docs
           p == i - BulkOf(i)
       IN /\ p < Len(chunk)
          /\ \E j \in (i + 1)..Len(trace) : Offered(j, chunk[p + 1])

\* the listing of the current tick succeeded
Listed == trace # <<>> /\ trace[1].ev = "list" /\ trace[1].res = "ok"

\* the number of events of the given kinds recorded for source s
Count(s, kinds) == Cardinality({j \in TraceIdx : trace[j].src = s /\ trace[j].ev \in kinds})

\* the events a step appends to the history of the tick
NewIdx == (Len(trace) + 1)..Len(trace')

\* the step handles the source at feeds[idx] (FetchFeed is called)
FetchStep == pc = "feed" /\ trace' # trace

\* source s is inside its backoff window at the current time
InBackoff(s) == HasEntry(backoffItems, s) /\ now < backoffItems[s].until

\* C4 (state part): in a tick whose listing succeeded the sources are
\* reported in listing order, each handled source has exactly one fetch
\* attempt or one skip, a source not yet reached has none, and once the last
\* source is reported the tick-end flush runs and run returns.
C4_Inv ==
  Listed =>
    /\ \A p \in 1..Len(reports) : reports[p].src = feeds[p].ID
    /\ pc \in {"feed", "srcflush"} => idx = Len(reports) + 1 /\ idx <= Len(feeds)
    /\ pc \in {"flush", "crashed", "wait", "run"} => Len(reports) = Len(feeds)
    /\ pc \in {"wait", "run"} => trace[Len(trace)].ev = "end" /\ pendingDocs = <<>>
    /\ \A p \in 1..Len(feeds) :
         LET handled == p <= Len(reports) \/ (p = idx /\ pc = "srcflush")
         IN Count(feeds[p].ID, {"fetch", "skip"}) = IF handled THEN 1 ELSE 0

\* C4 (step part): the source whose turn it is gets exactly one fetch attempt
\* when it is not inside its backoff window and none when it is.
C4_Step ==
  FetchStep =>
    LET s == feeds[idx].ID
        fetches == Cardinality({j \in NewIdx : trace'[j].ev = "fetch" /\ trace'[j].src = s})
    IN fetches = IF InBackoff(s) THEN 0 ELSE 1

\* C4: no per-source error or panic aborts the tick.
C4_TickNotAborted == []C4_Inv /\ [][C4_Step]_vars

C4_Witness ==
  /\ Listed /\ pc = "wait" /\ Len(feeds) = 2
  /\ \E j \in TraceIdx : trace[j].ev = "recover" /\ trace[j].src = reports[1].src
  /\ reports[2].level = "processed" /\ reports[2].result.Mutated
  /\ \E j \in TraceIdx : trace[j].ev = "bulk" /\ trace[j].src = 0

\* the upserts of source s that failed
FailedUpserts(s) ==
  {j \in TraceIdx : trace[j].ev = "upsert" /\ trace[j].src = s /\ trace[j].res = "err"}

NumberOf(e, seq) == Cardinality({i \in 1..Len(seq) : seq[i] = e})

\* a panic was recovered while source s was processed
Recovered(s) == \E j \in TraceIdx : trace[j].ev = "recover" /\ trace[j].src = s

\* what C5 promises for the items of the reported source at position p of
\* the listing, and for the tick
C5_Siblings(p) ==
  LET s == reports[p].src IN
    /\ \A f \in TraceIdx :
         (trace[f].ev = "fetch" /\ trace[f].src = s) =>
           \A d \in Range(trace[f].docs) :
             \E j \in TraceIdx : /\ trace[j].ev = "upsert" /\ trace[j].docs = <<d>>
                                 /\ trace[j].res \in {"changed", "unchanged", "err"}
    /\ \A j \in TraceIdx :
         (trace[j].ev = "upsert" /\ trace[j].src = s /\ trace[j].res = "changed")
           => Enqueued(trace[j].docs[1])
    /\ p < Len(feeds) => Len(reports) > p \/ (idx = p + 1 /\ pc \in {"feed", "srcflush"})

\* what C5 promises for the error reported for that source
C5_Reported(p) ==
  /\ NumberOf("upsert item", reports[p].result.Err)
       = Cardinality(FailedUpserts(reports[p].src))
  /\ reports[p].level = "error"

C5_Body(p) == C5_Siblings(p) /\ C5_Reported(p)

RecoverStep ==
  /\ pc \in {"feed", "srcflush"}
  /\ Len(trace') > Len(trace)
  /\ trace'[Len(trace')].ev = "recover"

\* C6 (step part): the recovery removes from the queue exactly the documents
\* of the panicking source and keeps the others in their order.
C6_Step ==
  RecoverStep =>
    LET s == feeds[idx].ID
        Other(d) == d[1] # s
    IN /\ pendingDocs' = SelectSeq(pendingDocs, Other)
       /\ trace'[Len(trace')].docs = SelectSeq(pendingDocs, LAMBDA d : d[1] = s)

\* C6 (state part): after the recovery no indexer call names a document of
\* the panicking source.
C6_Inv ==
  \A i \in TraceIdx :
    trace[i].ev = "recover" =>
      \A j \in (i + 1)..Len(trace) :
        IsIndexerCall(trace[j]) => \A d \in Range(trace[j].docs) : d[1] # trace[i].src

\* C6: a panic discards the source's pending documents and only those.
C6_PanicDiscardsOwnDocs == []C6_Inv /\ [][C6_Step]_vars

C6_Witness ==
  \E i, j \in TraceIdx :
    /\ i < j
    /\ trace[i].ev = "recover" /\ trace[i].docs # <<>>
    /\ trace[j].ev = "bulk" /\ trace[j].res = "ok" /\ trace[j].docs # <<>>

\* C7 (step part): a source inside its backoff window is not fetched; the
\* tables, the queue and the tracker are left as they were and the result
\* says backoff active with the remaining wait.
C7_Step ==
  (FetchStep /\ InBackoff(feeds[idx].ID)) =>
    LET s == feeds[idx].ID IN
    /\ \A j \in NewIdx : trace'[j].ev = "skip" /\ trace'[j].src = s
    /\ feedsTbl' = feedsTbl /\ itemsTbl' = itemsTbl
    /\ pendingDocs' = pendingDocs
    /\ backoffItems' = backoffItems
    /\ result'.Err = <<"ErrBackoffActive">>
    /\ result'.Skipped
    /\ result'.RetryIn = backoffItems[s].until - now

\* C7 (state part): a skipped source has no fetch, repository or enqueue
\* event in the tick and is reported as skipped with the remaining wait.
C7_Inv ==
  \A j \in TraceIdx :
    trace[j].ev = "skip" =>
      /\ Count(trace[j].src, {"fetch", "update", "upsert", "enqueue", "schedule", "reset"}) = 0
      /\ \A i \in TraceIdx : IsIndexerCall(trace[i]) => trace[i].src # trace[j].src
      /\ \A p \in 1..Len(reports) :
           reports[p].src = trace[j].src =>
             /\ reports[p].level = "skipped"
             /\ reports[p].result.Err = <<"ErrBackoffActive">>
             /\ reports[p].result.RetryIn = trace[j].n
             /\ trace[j].n > 0

\* C7: a source inside its backoff window is skipped for the whole tick.
C7_BackoffSkip == []C7_Inv /\ [][C7_Step]_vars

C7_Witness ==
  \E j \in TraceIdx : \E p \in 1..Len(reports) :
    /\ trace[j].ev = "skip" /\ reports[p].src = trace[j].src
    /\ reports[p].level = "skipped"
    /\ HasEntry(backoffItems, trace[j].src)

\* C8 as stated: the delays scheduled for consecutive retry-later failures
\* that carry no suggested delay never decrease and never exceed the ceiling.
\* Refuted: an entry whose deadline has passed is forgotten by Remaining, so
\* a delay of twice the floor is followed by the floor.
C8_Claim ==
  \A s \in DOMAIN streak :
    /\ \A i \in 1..Len(streak[s]) : streak[s][i] <= BackoffMax
    /\ \A i \in 1..(Len(streak[s]) - 1) : streak[s][i] <= streak[s][i + 1]

\* the step is a fetch that ended in the given error
FailStep(err) ==
  /\ FetchStep
  /\ \E j \in NewIdx : trace'[j].ev = "fetch" /\ trace'[j].res = err

\* C9: Schedule stores and returns min(suggested, ceiling) for a positive
\* suggestion, else the floor when the source has no entry and
\* min(previous delay * factor, ceiling) when it has one; the deadline is the
\* call time plus that delay; run reports the returned delay.
C9_Step ==
  FailStep("ErrRetryLater") =>
    LET s == feeds[idx].ID
        f == CHOOSE j \in NewIdx : trace'[j].ev = "fetch"
        suggested == trace'[f].n
        live == HasEntry(backoffItems, s) /\ ~(now > backoffItems[s].until)
        expected == IF suggested > 0 THEN Min(suggested, BackoffMax)
                    ELSE IF ~live THEN BackoffMin
                    ELSE Min(backoffItems[s].duration * BackoffFactor, BackoffMax)
    IN /\ HasEntry(backoffItems', s)
       /\ backoffItems'[s] = [until |-> now + expected, duration |-> expected]
       /\ result'.RetryIn = expected
       /\ result'.Reason = "retry scheduled"
       /\ \A o \in Sources \ {s} :
            /\ HasEntry(backoffItems', o) <=> HasEntry(backoffItems, o)
            /\ HasEntry(backoffItems, o) => backoffItems'[o] = backoffItems[o]

C9_ScheduleContract == [][C9_Step]_vars

C9_Witness ==
  \E j \in TraceIdx :
    /\ j < Len(trace)
    /\ trace[j].ev = "fetch" /\ trace[j].res = "ErrRetryLater" /\ trace[j].n = 0
    /\ trace[j + 1].ev = "schedule" /\ trace[j + 1].n = BackoffMax
    /\ HasEntry(backoffItems, trace[j].src)
    /\ backoffItems[trace[j].src].until = now + BackoffMax

\* C10 as stated: a fetch that fails with the transient condition leaves the
\* source with a backoff entry whose window starts now.  Refuted: FetchFeed
\* schedules a backoff for ErrRetryLater only.
C10_Step ==
  FailStep("ErrTransientFetch") =>
    LET s == feeds[idx].ID IN
      /\ HasEntry(backoffItems', s)
      /\ backoffItems'[s].until > now

C10_Claim == [][C10_Step]_vars

\* the fetch of source s in this tick ended as not modified
NotModified(s) ==
  \E j \in TraceIdx : /\ trace[j].ev = "fetch" /\ trace[j].src = s
                      /\ trace[j].res = "ok" /\ trace[j].n = StatusNotModified

\* the step is a fetch that was answered with not modified
NotModifiedStep ==
  /\ FetchStep
  /\ \E j \in NewIdx : /\ trace'[j].ev = "fetch" /\ trace'[j].res = "ok"
                       /\ trace'[j].n = StatusNotModified

\* C11 (step part): a fetch answered with not modified, made with the
\* validators of the listed row, leaves both tables and the queue as they
\* were and yields a result that is skipped and not mutated.
C11_Step ==
  NotModifiedStep =>
    /\ feedsTbl' = feedsTbl /\ itemsTbl' = itemsTbl
    /\ pendingDocs' = pendingDocs
    /\ newDocsRemaining' = 0
    /\ ~result'.Mutated /\ result'.Skipped /\ result'.Err = <<>>
    /\ \A j \in NewIdx : trace'[j].ev \in {"fetch", "reset"}

\* C11 (state part): a source answered with not modified has no repository
\* write, no enqueue and no indexer call in the tick and is reported as
\* skipped and not mutated.
C11_Inv ==
  \A s \in Sources :
    NotModified(s) =>
      /\ Count(s, {"update", "upsert", "enqueue", "bulk", "single", "drop"}) = 0
      /\ \A p \in 1..Len(reports) :
           reports[p].src = s =>
             /\ ~reports[p].result.Mutated
             /\ reports[p].result.Items = 0
             /\ reports[p].level = "skipped"

\* C11: a not-modified fetch writes nothing and enqueues nothing.
C11_NotModifiedNoWrites == []C11_Inv /\ [][C11_Step]_vars

C11_Witness ==
  \E p \in 1..Len(reports) :
    /\ NotModified(reports[p].src)
    /\ tick > 1
    /\ feedsTbl[reports[p].src].etag = "e1"
    /\ feedsTbl[reports[p].src].lastCrawled < now
    /\ reports[p].level = "skipped"

\* the listing of the current tick failed
ListFailed == trace # <<>> /\ trace[1].ev = "list" /\ trace[1].res = "err"

\* C12 (step part): a tick whose listing fails changes neither table nor
\* the backoff state, makes no call besides the listing, and run returns.
C12_Step ==
  (pc = "run" /\ tick' # tick /\ trace'[1].res = "err") =>
    /\ feedsTbl' = feedsTbl /\ itemsTbl' = itemsTbl
    /\ backoffItems' = backoffItems
    /\ Len(trace') = 1 /\ reports' = <<>> /\ pendingDocs' = <<>>
    /\ pc' = "wait"

\* C12 (state part): after a failed listing nothing else happens in the
\* tick, and main waits for the ticker and then starts the next tick.
C12_Inv ==
  ListFailed =>
    /\ Len(trace) = 1 /\ reports = <<>> /\ pendingDocs = <<>>
    /\ pc \in {"wait", "run"}
    /\ (pc = "wait" /\ tick < MaxTicks /\ Cardinality(DOMAIN feedsTbl) = 1)
         => ENABLED TickerWait
    /\ pc = "run" => ENABLED RunListFeeds

\* C12: a failed listing ends the tick at once and only the tick.
C12_ListFailureEndsTick == []C12_Inv /\ [][C12_Step]_vars

C12_Witness ==
  /\ ListFailed /\ pc = "run" /\ tick = 2
  /\ HasEntry(backoffItems, 1) /\ backoffItems[1].until > now

\* the crawl-state update of source s failed in this tick
UpdateFailed(s) ==
  \E j \in TraceIdx : trace[j].ev = "update" /\ trace[j].src = s /\ trace[j].res = "err"

\* C13 (step part): a fetch step whose crawl-state update fails leaves both
\* tables and the queue as they were.
C13_Step ==
  (FetchStep /\ \E j \in NewIdx : trace'[j].ev = "update" /\ trace'[j].res = "err") =>
    /\ feedsTbl' = feedsTbl /\ itemsTbl' = itemsTbl
    /\ pendingDocs' = pendingDocs
    /\ newDocsRemaining' = 0
    /\ ~result'.Mutated /\ result'.Err # <<>>

\* C13 (state part): a source whose crawl-state update failed has no item
\* upsert and no enqueue in the tick, is reported with the error and as not
\* mutated, and the next source is handled.
C13_Inv ==
  \A s \in Sources :
    UpdateFailed(s) =>
      /\ Count(s, {"upsert", "enqueue"}) = 0
      /\ \A p \in 1..Len(reports) :
           reports[p].src = s =>
             /\ reports[p].level = "error"
             /\ reports[p].result.Err = <<"update feed">>
             /\ ~reports[p].result.Mutated
             /\ reports[p].result.Items = 0
             /\ p < Len(feeds) =>
                  Len(reports) > p \/ (idx = p + 1 /\ pc \in {"feed", "srcflush"})

\* C13: a failed crawl-state update skips the source's items for the tick.
C13_UpdateFailureSkipsItems == []C13_Inv /\ [][C13_Step]_vars

C13_Witness ==
  \E p \in 1..Len(reports) : \E j \in TraceIdx :
    /\ p < Len(reports)
    /\ UpdateFailed(reports[p].src)
    /\ trace[j].ev = "fetch" /\ trace[j].src = reports[p].src /\ Len(trace[j].docs) > 1
    /\ reports[p + 1].result.Mutated

\* the step ends the processing of a source: run logs its result
SourceEnds == Len(reports') > Len(reports)

\* C14 (step part): when the processing of a source ends, normally or by a
\* recovered panic, fewer than BatchSize documents are pending; an iteration
\* of the per-source flush makes one bulk call, with the first BatchSize
\* documents of the queue.
C14_Step ==
  /\ SourceEnds => Len(pendingDocs') < BatchSize
  /\ (pc = "srcflush" /\ Len(trace') > Len(trace)) =>
       /\ trace'[Len(trace) + 1].ev = "bulk"
       /\ trace'[Len(trace) + 1].docs = Take(pendingDocs, BatchSize)
       /\ Len(trace'[Len(trace) + 1].docs) = BatchSize
       /\ \A j \in NewIdx : j > Len(trace) + 1 => trace'[j].ev # "bulk"

\* C14 (state part): between two sources fewer than BatchSize documents are
\* pending, and every bulk call of a per-source flush carried BatchSize
\* documents.
C14_Inv ==
  /\ pc = "feed" => Len(pendingDocs) < BatchSize
  /\ \A j \in TraceIdx :
       (trace[j].ev = "bulk" /\ trace[j].src # 0) => Len(trace[j].docs) = BatchSize

\* C14: the per-source flush sends full batches only and leaves less than
\* one batch pending.
C14_PerSourceFlush == []C14_Inv /\ [][C14_Step]_vars

C14_Witness ==
  \E j \in TraceIdx : \E p \in 1..Len(reports) :
    /\ trace[j].ev = "bulk" /\ trace[j].src # 0 /\ reports[p].src = trace[j].src
    /\ \E d \in Range(trace[j].docs) : d[1] # trace[j].src
    /\ Len(pendingDocs) > 0
    /\ pc = "flush"

\* the step is an iteration of the tick-end flush
FinalFlushStep == pc = "flush" /\ pc' # "wait" /\ Len(trace') > Len(trace)

\* C15 (step part): an iteration of the tick-end flush makes one bulk call
\* with the first min(BatchSize, length) documents of the queue, at least
\* one; unless an indexer call panics the queue gets shorter; the loop is
\* left only when the queue is empty.
C15_Step ==
  /\ FinalFlushStep =>
       LET b == trace'[Len(trace) + 1] IN
       /\ b.ev = "bulk" /\ b.src = 0
       /\ b.docs = Take(pendingDocs, Min(BatchSize, Len(pendingDocs)))
       /\ Len(b.docs) >= 1 /\ Len(b.docs) <= BatchSize
       /\ \A j \in NewIdx : j > Len(trace) + 1 => trace'[j].ev # "bulk"
       /\ IF \E j \in NewIdx : trace'[j].res = "panic"
            THEN pc' = "crashed"
            ELSE pc' = "flush" /\ Len(pendingDocs') < Len(pendingDocs)
  /\ (pc = "flush" /\ pc' = "wait") => pendingDocs = <<>> /\ pendingDocs' = <<>>

\* C15 (state part): the tick-end flush can always take its next step, its
\* bulk calls carry between 1 and BatchSize documents, and when run has
\* returned the queue is empty.
C15_Inv ==
  /\ pc = "flush" => ENABLED (FinalFlushIter \/ FinalFlushDone)
  /\ \A j \in TraceIdx :
       (trace[j].ev = "bulk" /\ trace[j].src = 0) =>
         Len(trace[j].docs) >= 1 /\ Len(trace[j].docs) <= BatchSize
  /\ (pc = "wait" /\ Listed) => pendingDocs = <<>>

\* C15: the tick-end flush terminates with an empty queue.
C15_FinalFlushTerminates == []C15_Inv /\ [][C15_Step]_vars

C15_Witness ==
  /\ pc = "wait" /\ Listed /\ pendingDocs = <<>>
  /\ \E i, j, k \in TraceIdx :
       /\ i < j /\ j < k
       /\ trace[i].ev = "bulk" /\ trace[i].src = 0 /\ trace[i].res = "err"
       /\ trace[j].ev = "drop" /\ trace[j].src = 0
       /\ trace[k].ev = "bulk" /\ trace[k].src = 0 /\ trace[k].res = "err"
       /\ Len(trace[k].docs) < Len(trace[i].docs)

\* the row stored for the identity of arg before the call, if any
StoredFor(call) == Conflicting(call.before, call.arg)

\* what C16 promises for one call that did not fail
C16_Changed(call) ==
  call.indexed <=>
    \/ StoredFor(call) = {}
    \/ \E i \in StoredFor(call) : i.ContentHash # call.arg.ContentHash

\* C16 as stated: an upsert is reported as changed exactly when the identity
\* (source, guid-or-url) had no row or the stored fingerprint differs; the
\* table never holds two rows of one identity; of two successive upserts of
\* the same (source, guid) with the same fingerprint the second is not
\* enqueued, and with a different fingerprint it is.  Refuted: the query
\* looks the old row up by guid = guid (or by url when both guids are
\* null), so a row stored without guid under the address that a later item
\* carries as its guid is never found, and every such upsert is reported
\* as changed.
C16_Claim ==
  probe.op = "upsert" =>
    /\ \A i, j \in probe.rows :
         (i.FeedID = j.FeedID /\ Identity(i) = Identity(j)) => i = j
    /\ \A c \in 1..Len(probe.calls) :
         ~probe.calls[c].err => C16_Changed(probe.calls[c])
    /\ Len(probe.calls) = 2 =>
         LET a == probe.calls[1]
             b == probe.calls[2]
         IN (/\ ~a.err /\ ~b.err
             /\ a.arg.GUID.Valid /\ a.arg.GUID = b.arg.GUID)
              => (b.docs # <<>> <=> a.arg.ContentHash # b.arg.ContentHash)

\* the exchange ended with a response of status st
Answered(st) == probe.op = "fetch" /\ probe.done /\ probe.resp.kind = "http"
                  /\ probe.resp.status = st

\* C17: for a not-modified response and for a successful response with a
\* parsed feed, each validator of the result is the one the response
\* carried when it carried one, else the prior one; the request carries a
\* conditional header exactly when the prior validator is not empty, with
\* that validator as its value.
C17_ValidatorCarryThrough ==
  (probe.op = "fetch" /\ probe.done) =>
    /\ probe.req.IfNoneMatch.set <=> probe.prior.etag # ""
    /\ probe.req.IfModifiedSince.set <=> probe.prior.lm # ""
    /\ probe.req.IfNoneMatch.set => probe.req.IfNoneMatch.value = probe.prior.etag
    /\ probe.req.IfModifiedSince.set => probe.req.IfModifiedSince.value = probe.prior.lm
    /\ (Answered(StatusNotModified) \/ (Answered(StatusOK) /\ probe.resp.parse = "ok")) =>
         /\ probe.out.err = "nil"
         /\ probe.out.ETag = IF probe.resp.etag # "" THEN probe.resp.etag
                             ELSE probe.prior.etag
         /\ probe.out.LastModified = IF probe.resp.lm # "" THEN probe.resp.lm
                                     ELSE probe.prior.lm

C17_Witness ==
  /\ Answered(StatusNotModified)
  /\ probe.prior.etag = "e0" /\ probe.resp.etag = "" /\ probe.out.ETag = "e0"
  /\ probe.prior.lm = "m0" /\ probe.resp.lm = "m1" /\ probe.out.LastModified = "m1"
  /\ probe.req.IfNoneMatch.set /\ probe.req.IfModifiedSince.set

\* C18: a rate-limited or explicitly transient status yields the retry-later
\* condition with the delay suggested by Retry-After (the second count, or
\* the time left until the absolute time; none when the header is absent,
\* invalid or in the past); any other non-success status, and a parse
\* failure, yields a hard error.
C18_Claim ==
  (probe.op = "fetch" /\ probe.done /\ probe.resp.kind = "http"
     /\ probe.resp.status # StatusNotModified) =>
    IF probe.resp.status = StatusOK
      THEN probe.resp.parse = "err" => probe.out.err = "error"
    ELSE IF isRateLimited(probe.resp.status) \/ isTransientStatus(probe.resp.status)
      THEN /\ probe.out.err = "ErrRetryLater"
           /\ probe.out.RetryAfter =
                IF probe.header.kind = "seconds" /\ probe.header.value >= 0
                  THEN probe.header.value
                ELSE IF probe.header.kind = "date" /\ probe.header.value > probe.at
                  THEN probe.header.value - probe.at
                ELSE 0
    ELSE probe.out.err = "error"

\* C19: the stream hashed for a tuple of parts is hashed for no other tuple
\* of parts: no two different tuples give the same stream by shifting a
\* boundary between parts.
C19_Claim ==
  (probe.op = "hash" /\ probe.done) =>
    \A other \in PartTuples :
      other # probe.parts => HashStream(other) # probe.stream

\* C20: the fingerprint stored by an upsert is the hash over the source, the
\* guid, the URL and the text stored by that same upsert; two items whose
\* stored identity and attributes are equal carry equal fingerprints.
C20_Claim ==
  probe.op = "upsert" =>
    /\ \A i \in DOMAIN probe.calls :
         LET c == probe.calls[i] IN
         ~c.err =>
           c.row.ContentHash =
             HashContent(c.row.FeedID, <<c.row.GUID.String, c.row.URL>>, c.row.ContentText)
    /\ \A i, j \in DOMAIN probe.calls :
         LET p == probe.calls[i].arg
             q == probe.calls[j].arg
         IN (/\ p.FeedID = q.FeedID /\ p.GUID = q.GUID /\ p.URL = q.URL
             /\ p.ContentText = q.ContentText)
              => p.ContentHash = q.ContentHash

\* C21: a link that differs from the normalized one only in its tracking
\* parameter, a default port, one leading "www." label, a trailing slash or
\* the fragment normalizes to the same string; text that does not parse as a
\* URL with a scheme comes back unchanged apart from trimming.
C21_Claim ==
  (probe.op = "normalize" /\ probe.done) =>
    /\ ~probe.in.parses => probe.out = [probe.in EXCEPT !.pad = FALSE]
    /\ probe.in.parses =>
         \A other \in Urls :
           (/\ other.pad = probe.in.pad
            /\ other.keep = probe.in.keep
            /\ (other.port = "8443") <=> (probe.in.port = "8443")
            /\ other.www - probe.in.www \in {0 - 1, 0, 1}
            /\ \E base \in Paths : {other.path, probe.in.path} \subseteq {base, base \o "/"}
            /\ (other.track = probe.in.track
                  \/ {ToLower(other.track), ToLower(probe.in.track)}
                       \subseteq {"", "utm_source"} \cup trackingParameters))
             => Normalize(other) = probe.out

\* C22: the text CleanHTML returns has at most max runes when max > 0 and at
\* most defaultMaxLength runes when max <= 0, and none of its runes comes
\* from inside a script or style element.
C22_LengthAndScriptFree ==
  (probe.op = "clean" /\ probe.done) =>
    /\ probe.max > 0 => RuneCount(probe.out) <= probe.max
    /\ probe.max <= 0 => RuneCount(probe.out) <= defaultMaxLength
    /\ \A i \in DOMAIN probe.out : ~probe.out[i].script

C22_Witness ==
  /\ probe.op = "clean" /\ probe.done
  /\ probe.max <= 0
  /\ \E i \in DOMAIN probe.input.nodes :
       /\ probe.input.nodes[i].elem = "script"
       /\ RuneCount(probe.input.nodes[i].text) > 0
  /\ RuneCount(walk(probe.input.nodes, <<>>)) > defaultMaxLength
  /\ RuneCount(probe.out) = defaultMaxLength

\* C23: the DSN of the snapshot carries no user password and none of the
\* sensitive query parameters, keeps the user name and the other query
\* parameters, and is the same for two configurations that differ only in
\* those secrets.
C23_Claim ==
  (probe.op = "snapshot" /\ probe.done /\ probe.cfg.Database.DSN.kind = "url") =>
    LET in == probe.cfg.Database.DSN
        out == probe.out.Database.DSN
    IN /\ out.user.pw = "none"
       /\ \A k \in SensitiveKeys : out.query[k] = "absent"
       /\ out.user.set = in.user.set /\ out.user.name = in.user.name
       /\ \A k \in QueryKeys \ SensitiveKeys : out.query[k] = in.query[k]
       /\ \A other \in RuntimeConfigs :
            LET o == other.Database.DSN
            IN (/\ o.kind = "url"
                /\ o.user.set = in.user.set /\ o.user.name = in.user.name
                /\ \A k \in QueryKeys \ SensitiveKeys : o.query[k] = in.query[k])
                 => Snapshot(other) = probe.out

RECURSIVE Pow(_, _)
Pow(b, e) == IF e = 0 THEN 1 ELSE b * Pow(b, e - 1)

\* C24: in a run of consecutive retry-later failures without a suggested
\* delay, the delay scheduled after the k-th failure is
\* min(ceiling, floor * factor^(k-1)).
C24_Claim ==
  \A s \in DOMAIN streak :
    \A k \in 1..Len(streak[s]) :
      streak[s][k] = Min(BackoffMax, BackoffMin * Pow(BackoffFactor, k - 1))

\* C25: Remaining returns 0 exactly when the id has no entry or its deadline
\* has been reached, and then the tracker holds no entry for the id;
\* otherwise it returns deadline - now > 0 and leaves the entry as it was.
C25_Claim ==
  (probe.op = "tracker" /\ probe.last.call = "Remaining") =>
    LET c == probe.last
        had == HasEntry(c.before, c.id)
    IN /\ (c.ret = 0) <=> (~had \/ c.t >= c.before[c.id].until)
       /\ c.ret = 0 => ~HasEntry(probe.items, c.id)
       /\ c.ret # 0 => /\ c.ret = c.before[c.id].until - c.t
                       /\ c.ret > 0
                       /\ HasEntry(probe.items, c.id)
                       /\ probe.items[c.id] = c.before[c.id]

\* C26: the result run receives for a source whose processing panicked
\* carries an error and a reason, and the source is logged as an error.
C26_Claim ==
  \A p \in 1..Len(reports) :
    Recovered(reports[p].src) =>
      /\ reports[p].result.Err # <<>>
      /\ reports[p].result.Reason # ""
      /\ reports[p].level = "error"

\* the step is a fetch that returned success with a parsed feed
ParsedFeedStep ==
  /\ FetchStep
  /\ \E j \in NewIdx : /\ trace'[j].ev = "fetch" /\ trace'[j].res = "ok"
                       /\ trace'[j].n = StatusOK

\* C27: the feeds and items tables change only in a step in which the
\* source's fetch returned success with a parsed feed, and then only in the
\* rows of that source; a step whose fetch failed (retry-later, transient,
\* hard error), was skipped or carried no feed leaves both tables and the
\* queue as they were and enqueues nothing.
C27_Step ==
  /\ ~ParsedFeedStep =>
       /\ feedsTbl' = feedsTbl /\ itemsTbl' = itemsTbl
       /\ \A j \in NewIdx : trace'[j].ev # "enqueue"
       /\ FetchStep => pendingDocs' = pendingDocs
  /\ ParsedFeedStep =>
       /\ \A s \in DOMAIN feedsTbl : s # feeds[idx].ID =>
            feedsTbl'[s] = feedsTbl[s] /\ itemsTbl'[s] = itemsTbl[s]
       /\ \A j \in NewIdx : trace'[j].ev = "enqueue" => trace'[j].src = feeds[idx].ID

C27_WritesOnlyAfterParsedFeed == [][C27_Step]_vars

\* a source with stored crawl state and entries from an earlier tick whose
\* fetch failed or carried no feed in this tick
C27_Witness ==
  /\ tick >= 2
  /\ \E j \in TraceIdx :
       /\ trace[j].ev = "fetch"
       /\ trace[j].res \in {"ErrRetryLater", "ErrTransientFetch", "error", "nofeed"}
       /\ feedsTbl[trace[j].src].lastCrawled >= 0
       /\ feedsTbl[trace[j].src].lastCrawled < now
       /\ \E k \in DOMAIN itemsTbl[trace[j].src] : itemsTbl[trace[j].src][k] # NoRow

\* the documents put on the queue in this tick
QueuedDocs == UNION {Range(trace[j].docs) : j \in {i \in TraceIdx : trace[i].ev = "enqueue"}}

\* the successful indexer calls that named document d
Confirms(d) ==
  {j \in TraceIdx : /\ IsIndexerCall(trace[j]) /\ trace[j].res = "ok"
                    /\ d \in Range(trace[j].docs)}

\* the times document d was dropped after a failed single upsert
Drops(d) == {j \in TraceIdx : trace[j].ev = "drop" /\ trace[j].docs = <<d>>}

\* document d was removed from the queue by the recovery of a panic
Discarded(d) == \E j \in TraceIdx : trace[j].ev = "recover" /\ d \in Range(trace[j].docs)

\* document d is on the queue exactly as long as it was neither confirmed
\* nor dropped, it was confirmed or dropped at most once, and a drop comes
\* right after its own failed single upsert
C28_LeavesOnce(d) ==
  /\ Cardinality(Confirms(d)) + Cardinality(Drops(d)) <= 1
  /\ d \in Range(pendingDocs) <=> Confirms(d) \cup Drops(d) = {}
  /\ \A j \in Drops(d) :
       /\ j > 1 /\ trace[j - 1].ev = "single" /\ trace[j - 1].res = "err"
       /\ trace[j - 1].docs = <<d>>
  /\ pc = "wait" => d \notin Range(pendingDocs)

\* C28 as stated: every queued document that no panic discarded leaves the
\* queue exactly once, confirmed by one successful call or dropped after its
\* own failed single upsert, and no document is confirmed twice (as long as
\* the process runs: a panic of the tick-end flush ends it).
C28_Original ==
  pc # "crashed" =>
    \A d \in QueuedDocs :
      /\ Cardinality(Confirms(d)) <= 1
      /\ ~Discarded(d) => C28_LeavesOnce(d)

\* document d was confirmed by a single upsert of a fallback pass in which a
\* later single upsert panicked
ConfirmedInPanickedPass(d) ==
  \E j \in Confirms(d) : \E k \in TraceIdx :
    /\ k > j /\ trace[k].ev = "single" /\ trace[k].res = "panic"
    /\ \A i \in j..k : trace[i].ev = "single"

\* C28 (amended): as long as the process runs, every queued document that
\* was not confirmed singly in a fallback pass that then panicked is
\* confirmed at most once and, unless a panic discarded it, leaves the queue
\* exactly once, confirmed by one successful indexer call or dropped right
\* after its own failed single upsert.
C28_DocumentLeavesOnce ==
  pc # "crashed" =>
    \A d \in QueuedDocs :
      ~ConfirmedInPanickedPass(d) =>
        /\ Cardinality(Confirms(d)) <= 1
        /\ ~Discarded(d) => C28_LeavesOnce(d)

C28_Witness ==
  /\ pc = "wait" /\ pendingDocs = <<>>
  /\ \E d1, d2, d3 \in QueuedDocs :
       /\ Drops(d1) # {}
       /\ \E j \in Confirms(d2) : trace[j].ev = "single"
       /\ \E j \in Confirms(d3) : trace[j].ev = "bulk"

\* C29: a document that left the queue unconfirmed (dropped after its single
\* upsert failed, or discarded by a panic) is not enqueued again on the next
\* tick when the fetched entry is the same.  Refuted: an entry without guid
\* whose address is the guid of a stored row (or the other way round)
\* conflicts with that row but is never found by the lookup of the old
\* fingerprint, so it is reported changed and enqueued on every tick.
C29_Claim ==
  (probe.op = "requeue" /\ Len(probe.calls) = 3) =>
    LET a == probe.calls[2]
        b == probe.calls[3]
    IN (a.left \in {"dropped", "discarded"} /\ ~b.err) => b.docs = <<>>

\* the fetch of the step was attempted (the source was not skipped)
Attempted == FetchStep /\ \E j \in NewIdx : trace'[j].ev = "fetch"

\* the step leaves the entry of source s as it was
SameEntry(s) ==
  /\ HasEntry(backoffItems', s) <=> HasEntry(backoffItems, s)
  /\ HasEntry(backoffItems, s) => backoffItems'[s] = backoffItems[s]

\* every entry written by the step has a delay in (0, ceiling] and the
\* deadline now + delay, and is written by a retry-later failure
C30_Entries ==
  \A s \in Sources :
    (HasEntry(backoffItems', s) /\ ~SameEntry(s)) =>
      /\ FailStep("ErrRetryLater") /\ s = feeds[idx].ID
      /\ 0 < backoffItems'[s].duration /\ backoffItems'[s].duration <= BackoffMax
      /\ backoffItems'[s].until = now + backoffItems'[s].duration

\* a fetch attempt that did not end in retry-later leaves the source without
\* an entry
C30_OnlyAfterRetryLater ==
  (Attempted /\ ~FailStep("ErrRetryLater")) => ~HasEntry(backoffItems', feeds[idx].ID)

\* only the entry of the source being handled changes
C30_Others ==
  \A s \in Sources : (~FetchStep \/ s # feeds[idx].ID) => SameEntry(s)

\* C30: every stored backoff entry has 0 < delay <= ceiling and deadline =
\* scheduling time + delay; a source has an entry only if its most recent
\* fetch attempt ended in retry-later; handling one source never changes the
\* entry of another.  Refuted: a fetch made exactly at the deadline finds the
\* entry still stored, and a failure other than retry-later leaves it there.
C30_Step == C30_Entries /\ C30_OnlyAfterRetryLater /\ C30_Others

C30_Claim == [][C30_Step]_vars

====
